---- MODULE Spec2Model ----
(***************************************************************************)
(* git-hook-installer: the managed-block engine (hooks/managed_block.rs),  *)
(* the snapshot store (hooks/snapshots.rs) and the hook file writer        *)
(* (hooks/fs.rs, hooks.rs).                                                *)
(*                                                                         *)
(* A text is a sequence of chunks.  A chunk is a run of characters the     *)
(* code never looks inside: the two marker strings, "#!/bin/sh",           *)
(* "GHI_ENABLED=", a value, a space, some other content, and the two line  *)
(* terminator characters LF and CR.                                        *)
(***************************************************************************)
EXTENDS Integers, Sequences, FiniteSets, TLC

\* ------------------------------------------------------------------ bounds
MaxLines == 3
MaxSteps == 2
MaxTime == 1
MaxWrites == 3
MaxK == 2
MaxOps == 2
MaxDepth == 2
MaxBudget == 6

\* --------------------------------------------------------------- constants
MANAGED_BLOCK_BEGIN == "# >>> git-hook-installer managed block >>>"
MANAGED_BLOCK_END == "# <<< git-hook-installer managed block <<<"
SHEBANG == "#!/bin/sh"
GHI_ENABLED_EQ == "GHI_ENABLED="
LF == "LF"
CR == "CR"
SPACE == " "
\* the value of a path that does not exist (no text holds this chunk)
NoFile == <<"no file">>

\* ------------------------------------------------ Rust string primitives
\* str::starts_with("#!") on a line
StartsWithHashBang(line) == Len(line) > 0 /\ line[1] = SHEBANG

\* a line read by str::lines() loses its LF and a CR right before it
StripCR(line) ==
  IF Len(line) > 0 /\ line[Len(line)] = CR
    THEN SubSeq(line, 1, Len(line) - 1)
    ELSE line

RECURSIVE LinesFrom(_, _)
LinesFrom(s, cur) ==
  IF s = <<>>
    THEN (IF cur = <<>> THEN <<>> ELSE <<cur>>)
    ELSE IF Head(s) = LF
      THEN <<StripCR(cur)>> \o LinesFrom(Tail(s), <<>>)
      ELSE LinesFrom(Tail(s), Append(cur, Head(s)))

\* str::lines().collect()
Lines(s) == LinesFrom(s, <<>>)

\* [&str]::join("\n")
RECURSIVE JoinLF(_)
JoinLF(ls) ==
  IF ls = <<>> THEN <<>>
  ELSE IF Len(ls) = 1 THEN ls[1]
  ELSE ls[1] \o <<LF>> \o JoinLF(Tail(ls))

\* str::contains(marker): the marker is one chunk
Contains(s, chunk) == \E i \in 1..Len(s) : s[i] = chunk

\* str::trim_start()
RECURSIVE TrimStart(_)
TrimStart(line) ==
  IF line # <<>> /\ Head(line) \in {SPACE, CR}
    THEN TrimStart(Tail(line))
    ELSE line

\* str::trim().is_empty()
IsBlank(s) == \A i \in 1..Len(s) : s[i] \in {SPACE, CR, LF}

\* ------------------------------------------------------- managed_block.rs
normalize_newline_join(ls) ==
  LET out == JoinLF(ls)
  IN  IF out = <<>> \/ out[Len(out)] # LF THEN Append(out, LF) ELSE out

\* a faulty variant: the shebang line is put in front of every text
ensure_shebang_always(contents) ==
  <<SHEBANG, LF>> \o contents

ensure_shebang(contents) ==
  LET ls == Lines(contents)
      first_line == IF ls = <<>> THEN <<>> ELSE ls[1]
  IN  IF StartsWithHashBang(first_line)
        THEN contents
        ELSE <<SHEBANG, LF>> \o contents

\* the marker loop shared by upsert, uninstall and disable; 0 is None
RECURSIVE ScanMarkers(_, _, _)
ScanMarkers(ls, idx, start_idx) ==
  IF idx > Len(ls) THEN [start |-> start_idx, end |-> 0]
  ELSE IF ls[idx] = <<MANAGED_BLOCK_BEGIN>>
    THEN ScanMarkers(ls, idx + 1, idx)
  ELSE IF ls[idx] = <<MANAGED_BLOCK_END>>
    THEN [start |-> start_idx, end |-> idx]
  ELSE ScanMarkers(ls, idx + 1, start_idx)

FindMarkers(ls) == ScanMarkers(ls, 1, 0)

\* Vec::splice(start..=end, repl)
Splice(ls, start, end, repl) ==
  SubSeq(ls, 1, start - 1) \o repl \o SubSeq(ls, end + 1, Len(ls))

upsert_managed_block(existing, block) ==
  LET ls == Lines(existing)
      m == FindMarkers(ls)
      block_lines == Lines(block)
  IN  IF m.start # 0 /\ m.end # 0 /\ m.start <= m.end
        THEN ensure_shebang(normalize_newline_join(
               Splice(ls, m.start, m.end, block_lines)))
        ELSE LET insert_at == IF ls # <<>> /\ StartsWithHashBang(ls[1])
                                THEN 1 ELSE 0
                 out == SubSeq(ls, 1, insert_at)
                        \o (IF insert_at > 0 THEN << <<>> >> ELSE <<>>)
                        \o block_lines
                        \o << <<>> >>
                        \o SubSeq(ls, insert_at + 1, Len(ls))
             IN  ensure_shebang(normalize_newline_join(out))

Ok(t) == [ok |-> TRUE, text |-> t]
Err(e) == [ok |-> FALSE, text |-> <<e>>]

\* a faulty variant: the removed range starts one line late
uninstall_leaving_begin_marker(existing) ==
  LET ls == Lines(existing)
      m == FindMarkers(ls)
  IN  IF m.start = 0 \/ m.end = 0 THEN Err("no managed block")
      ELSE IF m.start > m.end THEN Err("invalid markers")
      ELSE Ok(normalize_newline_join(Splice(ls, m.start + 1, m.end, <<>>)))

uninstall_managed_block(existing) ==
  LET ls == Lines(existing)
      m == FindMarkers(ls)
  IN  IF m.start = 0 \/ m.end = 0 THEN Err("no managed block")
      ELSE IF m.start > m.end THEN Err("invalid markers")
      ELSE Ok(normalize_newline_join(Splice(ls, m.start, m.end, <<>>)))

IsEnabledLine(line) ==
  LET t == TrimStart(line) IN Len(t) > 0 /\ t[1] = GHI_ENABLED_EQ

DisabledLines(ls, start, end) ==
  [i \in 1..Len(ls) |->
     IF i < start \/ i > end THEN ls[i]
     ELSE IF IsEnabledLine(ls[i]) THEN <<GHI_ENABLED_EQ, "0">>
     ELSE ls[i]]

\* a faulty variant: a GHI_ENABLED= line anywhere in the file will do
disable_accepting_outside_flag(existing) ==
  LET ls == Lines(existing)
      m == FindMarkers(ls)
  IN  IF m.start = 0 \/ m.end = 0 THEN Err("no managed block")
      ELSE IF m.start > m.end THEN Err("invalid markers")
      ELSE IF ~(\E i \in 1..Len(ls) : IsEnabledLine(ls[i]))
        THEN Err("no GHI_ENABLED line")
      ELSE Ok(normalize_newline_join(DisabledLines(ls, m.start, m.end)))

disable_managed_block(existing) ==
  LET ls == Lines(existing)
      m == FindMarkers(ls)
  IN  IF m.start = 0 \/ m.end = 0 THEN Err("no managed block")
      ELSE IF m.start > m.end THEN Err("invalid markers")
      ELSE IF ~(\E i \in m.start..m.end : IsEnabledLine(ls[i]))
        THEN Err("no GHI_ENABLED line")
      ELSE Ok(normalize_newline_join(DisabledLines(ls, m.start, m.end)))

\* the text the upsert path computes (hooks/fs.rs, match on existing)
upsert_text(existing, block) ==
  IF existing = NoFile
    THEN ensure_shebang(block)
    ELSE upsert_managed_block(existing, block)


\* ----------------------------------------------------------- snapshots.rs
DEFAULT_MAX_SNAPSHOTS == 10
NAME_COUNTER_CAP == 10000

\* A snapshot name is kept without its constant prefix
\* "pre-commit.snapshot-YYYY-MM-DD-HH-MM-", as the bytes that follow it: the
\* two digits of the seconds field, then "." and the decimal counter if any.
DOT == 46
Digit(d) == 48 + d

RECURSIVE Decimal(_)
Decimal(n) ==
  IF n < 10 THEN <<Digit(n)>> ELSE Append(Decimal(n \div 10), Digit(n % 10))

format_timestamp_for_snapshot_name(dt) ==
  <<Digit((dt \div 10) % 10), Digit(dt % 10)>>

SnapshotName(timestamp, counter) ==
  IF counter = 0 THEN timestamp ELSE timestamp \o <<DOT>> \o Decimal(counter)

\* a faulty variant: the name is taken without a look at the directory
FirstCounter(timestamp, counter, names) ==
  counter

\* the loop "while snapshot_path.exists()": the counter of the first free
\* name from counter on, or -1 once the counter passes the cap. The loop
\* ends within as many steps as there are names in the directory, so the
\* counters past that number need no look.
FirstFreeCounter(timestamp, counter, names) ==
  LET last == IF counter + Cardinality(names) < NAME_COUNTER_CAP
                THEN counter + Cardinality(names)
                ELSE NAME_COUNTER_CAP
  IN  IF \A c \in counter..last : SnapshotName(timestamp, c) \in names
        THEN -1
        ELSE CHOOSE c \in counter..last :
               /\ SnapshotName(timestamp, c) \notin names
               /\ \A d \in counter..(c - 1) : SnapshotName(timestamp, d) \in names

\* String's Ord: byte-wise lexicographic, a proper prefix first
RECURSIVE LexLess(_, _)
LexLess(a, b) ==
  IF b = <<>> THEN FALSE
  ELSE IF a = <<>> THEN TRUE
  ELSE IF Head(a) # Head(b) THEN Head(a) < Head(b)
  ELSE LexLess(Tail(a), Tail(b))

\* Vec<String>::sort()
RECURSIVE SortedNames(_)
SortedNames(names) ==
  IF names = {} THEN <<>>
  ELSE LET least == CHOOSE n \in names : \A o \in names \ {n} : LexLess(n, o)
       IN  <<least>> \o SortedNames(names \ {least})

NamesOf(snaps) == {sn.name : sn \in snaps}

\* a faulty variant: only the first name of the sorted list is removed
PrunedOldestOnly(snaps, max_snapshots) ==
  LET sorted == SortedNames(NamesOf(snaps))
  IN  IF max_snapshots = 0 \/ Len(sorted) <= max_snapshots THEN {}
      ELSE {sorted[1]}

\* the names prune_hook_snapshots removes: the first len - max of the sorted
\* list, none when max is 0 or the list is short enough
PrunedNames(snaps, max_snapshots) ==
  LET sorted == SortedNames(NamesOf(snaps))
  IN  IF max_snapshots = 0 \/ Len(sorted) <= max_snapshots THEN {}
      ELSE {sorted[i] : i \in 1..(Len(sorted) - max_snapshots)}

\* prune_hook_snapshots: fails when the directory cannot be listed; a file
\* that cannot be removed stays
prune_hook_snapshots(snaps, max_snapshots, io) ==
  IF max_snapshots = 0 THEN [ok |-> TRUE, snaps |-> snaps, trace |-> <<>>]
  ELSE IF ~io.list_ok THEN [ok |-> FALSE, snaps |-> snaps, trace |-> <<>>]
  ELSE LET gone == IF io.remove_ok
                     THEN PrunedNames(snaps, max_snapshots) ELSE {}
       IN  [ok |-> TRUE,
            snaps |-> {sn \in snaps : sn.name \notin gone},
            trace |-> IF gone = {} THEN <<>>
                      ELSE <<[kind |-> "prune", names |-> gone]>>]

\* create_hook_snapshot_and_prune on hook file contents `file` at time dt;
\* seq numbers the snapshot for the claims (it is not on disk)
create_hook_snapshot_and_prune(file, snaps, dt, max_snapshots, io, seq) ==
  IF file = NoFile THEN [ok |-> TRUE, snaps |-> snaps, trace |-> <<>>]
  ELSE
    LET timestamp == format_timestamp_for_snapshot_name(dt)
        counter == FirstFreeCounter(timestamp, 0, NamesOf(snaps))
    IN  IF counter = -1 \/ ~io.copy_ok
          THEN [ok |-> FALSE, snaps |-> snaps,
                trace |-> <<[kind |-> "snapshot failed"]>>]
        ELSE
          LET made == [name |-> SnapshotName(timestamp, counter),
                       content |-> file, born |-> seq]
              copied == <<[kind |-> "snapshot", name |-> made.name,
                           content |-> file]>>
              pruned == prune_hook_snapshots(snaps \cup {made},
                                             max_snapshots, io)
          IN  [ok |-> pruned.ok, snaps |-> pruned.snaps,
               trace |-> copied \o pruned.trace]

\* what the file system lets an operation do
AllOk ==
  [copy_ok |-> TRUE, list_ok |-> TRUE, remove_ok |-> TRUE, write_ok |-> TRUE]

IOs ==
  {AllOk,
   [copy_ok |-> FALSE, list_ok |-> TRUE, remove_ok |-> TRUE, write_ok |-> TRUE],
   [copy_ok |-> TRUE, list_ok |-> FALSE, remove_ok |-> TRUE, write_ok |-> TRUE],
   [copy_ok |-> TRUE, list_ok |-> TRUE, remove_ok |-> FALSE, write_ok |-> TRUE],
   [copy_ok |-> TRUE, list_ok |-> TRUE, remove_ok |-> TRUE, write_ok |-> FALSE]}


\* ----------------------------------------------------------- hooks/fs.rs
\* a backup file is named by its counter: 0 is ".bak", n is ".bak.n"
FirstFreeBackup(counter, taken) ==
  LET last == IF counter + Cardinality(taken) < NAME_COUNTER_CAP
                THEN counter + Cardinality(taken)
                ELSE NAME_COUNTER_CAP
  IN  IF \A c \in counter..last : c \in taken
        THEN -1
        ELSE CHOOSE c \in counter..last :
               c \notin taken /\ \A d \in counter..(c - 1) : d \in taken

backup_existing_hook(file, baks, io) ==
  LET counter == FirstFreeBackup(0, {b.n : b \in baks})
  IN  IF counter = -1 \/ ~io.copy_ok
        THEN [ok |-> FALSE, baks |-> baks, trace |-> <<>>]
        ELSE [ok |-> TRUE,
              baks |-> baks \cup {[n |-> counter, content |-> file]},
              trace |-> <<[kind |-> "backup", n |-> counter,
                           content |-> file]>>]

\* a faulty variant: a declined prompt is treated as an accepted one
handle_existing_hook_ignoring_answer(file, baks, options, confirm, io) ==
  IF options.force \/ options.yes THEN backup_existing_hook(file, baks, io)
  ELSE IF options.non_interactive
    THEN [ok |-> FALSE, baks |-> baks, trace |-> <<>>]
  ELSE LET b == backup_existing_hook(file, baks, io)
       IN  [b EXCEPT !.trace = <<[kind |-> "prompt"]>> \o @]

\* confirm is the answer the prompt gets when it is shown
handle_existing_hook(file, baks, options, confirm, io) ==
  IF options.force \/ options.yes THEN backup_existing_hook(file, baks, io)
  ELSE IF options.non_interactive
    THEN [ok |-> FALSE, baks |-> baks, trace |-> <<>>]
  ELSE IF ~confirm
    THEN [ok |-> FALSE, baks |-> baks, trace |-> <<[kind |-> "prompt"]>>]
  ELSE LET b == backup_existing_hook(file, baks, io)
       IN  [b EXCEPT !.trace = <<[kind |-> "prompt"]>> \o @]

\* an operation's result: the files it leaves and the effects it had, in
\* the order it had them
Outcome(ok, file, snaps, baks, trace) ==
  [ok |-> ok, hook |-> file, snaps |-> snaps, baks |-> baks, trace |-> trace]

WriteEffect(updated) == <<[kind |-> "write", content |-> updated]>>

\* a faulty variant: the write is not preceded by a snapshot
write_hook_without_snapshot(file, snaps, baks, dt, updated, io, seq) ==
  IF file = updated THEN Outcome(TRUE, file, snaps, baks, <<>>)
  ELSE IF ~io.write_ok THEN Outcome(FALSE, file, snaps, baks, <<>>)
  ELSE Outcome(TRUE, updated, snaps, baks, WriteEffect(updated))

write_hook_with_snapshot_if_changed(file, snaps, baks, dt, updated, io, seq) ==
  IF file = updated THEN Outcome(TRUE, file, snaps, baks, <<>>)
  ELSE
    LET sn == create_hook_snapshot_and_prune(file, snaps, dt,
                                             DEFAULT_MAX_SNAPSHOTS, io, seq)
    IN  IF ~sn.ok THEN Outcome(FALSE, file, sn.snaps, baks, sn.trace)
        ELSE IF ~io.write_ok
          THEN Outcome(FALSE, file, sn.snaps, baks, sn.trace)
        ELSE Outcome(TRUE, updated, sn.snaps, baks,
                     sn.trace \o WriteEffect(updated))

\* has_managed: both marker strings occur somewhere in the existing file
has_managed(file) ==
  /\ file # NoFile
  /\ Contains(file, MANAGED_BLOCK_BEGIN)
  /\ Contains(file, MANAGED_BLOCK_END)

upsert_managed_block_in_file(file, snaps, baks, dt, blk, options, confirm, io, seq) ==
  LET consent ==
        IF file # NoFile /\ ~has_managed(file)
          THEN handle_existing_hook(file, baks, options, confirm, io)
          ELSE [ok |-> TRUE, baks |-> baks, trace |-> <<>>]
      updated == upsert_text(file, blk)
  IN  IF ~consent.ok
        THEN Outcome(FALSE, file, snaps, consent.baks, consent.trace)
      ELSE IF file # NoFile /\ file = updated
        THEN Outcome(TRUE, file, snaps, consent.baks, consent.trace)
      ELSE
        LET sn == IF file # NoFile
                    THEN create_hook_snapshot_and_prune(
                           file, snaps, dt, DEFAULT_MAX_SNAPSHOTS, io, seq)
                    ELSE [ok |-> TRUE, snaps |-> snaps, trace |-> <<>>]
        IN  IF ~sn.ok \/ ~io.write_ok
              THEN Outcome(FALSE, file, sn.snaps, consent.baks,
                           consent.trace \o sn.trace)
              ELSE Outcome(TRUE, updated, sn.snaps, consent.baks,
                           consent.trace \o sn.trace \o WriteEffect(updated))

\* -------------------------------------------------------------- hooks.rs
disable_managed_pre_commit_hook(file, snaps, baks, dt, io, seq) ==
  IF file = NoFile THEN Outcome(FALSE, file, snaps, baks, <<>>)
  ELSE
    LET updated == disable_managed_block(file)
    IN  IF ~updated.ok THEN Outcome(FALSE, file, snaps, baks, <<>>)
        ELSE write_hook_with_snapshot_if_changed(
               file, snaps, baks, dt, updated.text, io, seq)

\* a faulty variant: a remainder of nothing but a shebang line counts as
\* empty
uninstall_removing_bare_shebang(file, snaps, baks, dt, io, seq) ==
  IF file = NoFile THEN Outcome(FALSE, file, snaps, baks, <<>>)
  ELSE
    LET updated == uninstall_managed_block(file)
    IN  IF ~updated.ok THEN Outcome(FALSE, file, snaps, baks, <<>>)
        ELSE IF IsBlank(updated.text) \/ updated.text = <<SHEBANG, LF>>
          THEN LET sn == create_hook_snapshot_and_prune(
                           file, snaps, dt, DEFAULT_MAX_SNAPSHOTS, io, seq)
               IN  IF ~sn.ok \/ ~io.write_ok
                     THEN Outcome(FALSE, file, sn.snaps, baks, sn.trace)
                     ELSE Outcome(TRUE, NoFile, sn.snaps, baks,
                                  sn.trace \o <<[kind |-> "remove"]>>)
        ELSE write_hook_with_snapshot_if_changed(
               file, snaps, baks, dt, updated.text, io, seq)

\* a faulty variant: the remainder is written whatever it holds
uninstall_writing_empty_remainder(file, snaps, baks, dt, io, seq) ==
  IF file = NoFile THEN Outcome(FALSE, file, snaps, baks, <<>>)
  ELSE
    LET updated == uninstall_managed_block(file)
    IN  IF ~updated.ok THEN Outcome(FALSE, file, snaps, baks, <<>>)
        ELSE write_hook_with_snapshot_if_changed(
               file, snaps, baks, dt, updated.text, io, seq)

uninstall_managed_pre_commit_hook(file, snaps, baks, dt, io, seq) ==
  IF file = NoFile THEN Outcome(FALSE, file, snaps, baks, <<>>)
  ELSE
    LET updated == uninstall_managed_block(file)
    IN  IF ~updated.ok THEN Outcome(FALSE, file, snaps, baks, <<>>)
        ELSE IF IsBlank(updated.text)
          THEN LET sn == create_hook_snapshot_and_prune(
                           file, snaps, dt, DEFAULT_MAX_SNAPSHOTS, io, seq)
               IN  IF ~sn.ok \/ ~io.write_ok
                     THEN Outcome(FALSE, file, sn.snaps, baks, sn.trace)
                     ELSE Outcome(TRUE, NoFile, sn.snaps, baks,
                                  sn.trace \o <<[kind |-> "remove"]>>)
        ELSE write_hook_with_snapshot_if_changed(
               file, snaps, baks, dt, updated.text, io, seq)

\* ------------------------------------------------- the hooks directory
PRE_COMMIT_HOOK_NAME == "pre-commit"
SNAPSHOT_EXT == ".snapshot-"
BAK_EXT == ".bak"

\* A file name of the hooks directory is kept in three parts: the name of a
\* hook, the extension that follows it and the bytes after the extension.
\* "pre-commit.snapshot-...-07.1" is pre-commit, ".snapshot-", "07.1".
FileNamed(file, ext, rest) == [file |-> file, ext |-> ext, rest |-> rest]
Entry(name, kind, content) == [name |-> name, kind |-> kind, content |-> content]
NamesIn(d) == {e.name : e \in d}

\* a faulty variant: every name that starts with the hook's file name
StartsWithHookName(name, file_name) ==
  name.file = file_name

\* file_name.starts_with(prefix) for prefix = "{file_name}.snapshot-"
IsSnapshotName(name, file_name) ==
  name.file = file_name /\ name.ext = SNAPSHOT_EXT

\* "{file_name}.bak" for counter 0, "{file_name}.bak.{counter}" otherwise
BackupName(file_name, counter) ==
  FileNamed(file_name, BAK_EXT,
            IF counter = 0 THEN <<>> ELSE <<DOT>> \o Decimal(counter))

\* fs::copy(hook_path, to): a file of that name is overwritten
CopyTo(d, to, content) ==
  {e \in d : e.name # to} \cup {Entry(to, "file", content)}

\* create_hook_snapshot_and_prune(hook_path, max_snapshots) on directory d:
\* the snapshot names are those of the listing that start with the prefix,
\* and fs::remove_file removes regular files only
SnapshotIn(d, file_name, dt, max_snapshots, io) ==
  LET at == {e \in d : e.name = FileNamed(file_name, "", <<>>)}
  IN  IF \A e \in at : e.kind # "file" THEN [ok |-> TRUE, dir |-> d]
      ELSE
        LET file == (CHOOSE e \in at : TRUE).content
            listed == {e \in d : IsSnapshotName(e.name, file_name)}
            r == create_hook_snapshot_and_prune(
                   file,
                   {[name |-> e.name.rest, content |-> e.content, born |-> 0] :
                      e \in listed},
                   dt, max_snapshots, io, 1)
            made == {r.trace[i].name :
                       i \in {j \in 1..Len(r.trace) :
                                r.trace[j].kind = "snapshot"}}
            gone == UNION {r.trace[i].names :
                             i \in {j \in 1..Len(r.trace) :
                                      r.trace[j].kind = "prune"}}
            copied == IF made = {} THEN d
                      ELSE CopyTo(d, FileNamed(file_name, SNAPSHOT_EXT,
                                               CHOOSE n \in made : TRUE),
                                  file)
        IN  [ok |-> r.ok,
             dir |-> {e \in copied :
                        ~(/\ IsSnapshotName(e.name, file_name)
                          /\ e.name.rest \in gone
                          /\ e.kind = "file")}]

\* backup_existing_hook(path) on directory d; path is a regular file. The
\* counters taken are those whose candidate name exists in the directory.
BackupIn(d, file_name, io) ==
  LET file == (CHOOSE e \in d : e.name = FileNamed(file_name, "", <<>>)).content
      rests == {e.name.rest :
                  e \in {x \in d : /\ x.name.file = file_name
                                    /\ x.name.ext = BAK_EXT}}
      r == backup_existing_hook(
             file,
             {[n |-> c, content |-> <<>>] :
                c \in {k \in 0..NAME_COUNTER_CAP :
                         BackupName(file_name, k).rest \in rests}},
             io)
  IN  [ok |-> r.ok,
       dir |-> IF r.trace = <<>> THEN d
               ELSE CopyTo(d, BackupName(file_name, r.trace[1].n), file)]

\* ------------------------------------------------------- paths and files
\* A path is the sequence of its components (std::path::Components): ROOT
\* for the leading "/", PARENT for "..", a name otherwise.
ROOT == "/"
PARENT == ".."
DOT_GIT == ".git"
CARGO_TOML == "Cargo.toml"
NoPath == <<"no such path">>

\* Path::is_absolute, Path::join, Path::parent (<<>> stands for None)
IsAbsolute(p) == p # <<>> /\ p[1] = ROOT
PathJoin(base, p) == IF IsAbsolute(p) THEN p ELSE base \o p
PathParent(p) == IF Len(p) <= 1 THEN <<>> ELSE SubSeq(p, 1, Len(p) - 1)
FileName(p) == p[Len(p)]

\* A file system is a set of entries: a directory (readable or not) or a
\* regular file with its content, at the path the walk from "/" reaches it.
Dir(p) == [path |-> p, kind |-> "dir", content |-> <<>>, readable |-> TRUE]
LockedDir(p) == [path |-> p, kind |-> "dir", content |-> <<>>, readable |-> FALSE]
File(p, c) == [path |-> p, kind |-> "file", content |-> c, readable |-> TRUE]

EntryAt(fs, p) == {e \in fs : e.path = p}

\* the entry the operating system reaches for path p: ".." steps to the
\* parent of the directory reached so far
RECURSIVE Walk(_, _, _)
Walk(fs, p, cur) ==
  IF p = <<>> THEN cur
  ELSE IF Head(p) = ROOT THEN Walk(fs, Tail(p), <<ROOT>>)
  ELSE IF \A e \in EntryAt(fs, cur) : e.kind # "dir" THEN NoPath
  ELSE IF Head(p) = PARENT
    THEN Walk(fs, Tail(p), IF Len(cur) <= 1 THEN cur ELSE PathParent(cur))
  ELSE Walk(fs, Tail(p), Append(cur, Head(p)))

Locate(fs, p) == EntryAt(fs, Walk(fs, p, <<ROOT>>))

\* Path::is_dir, Path::is_file, fs::read_dir
IsDir(fs, p) == \E e \in Locate(fs, p) : e.kind = "dir"
IsFile(fs, p) == \E e \in Locate(fs, p) : e.kind = "file"
Readable(fs, p) == \E e \in Locate(fs, p) : e.readable
Children(fs, p) ==
  {e \in fs : Len(e.path) = Len(p) + 1 /\ SubSeq(e.path, 1, Len(p)) = p}

\* ------------------------------------------------------------ git_repo.rs
GITDIR_PREFIX == "gitdir:"

\* str::trim(): white space off both ends
RECURSIVE TrimEnd(_)
TrimEnd(s) ==
  IF s # <<>> /\ s[Len(s)] \in {SPACE, CR, LF}
    THEN TrimEnd(SubSeq(s, 1, Len(s) - 1))
    ELSE s

RECURSIVE TrimFront(_)
TrimFront(s) ==
  IF s # <<>> /\ Head(s) \in {SPACE, CR, LF} THEN TrimFront(Tail(s)) ELSE s

Trim(s) == TrimEnd(TrimFront(s))

\* PathBuf::from(text) for the path texts a .git file holds here
PathFrom(chunk) ==
  CASE chunk = "../a/.git/worktrees/b" ->
         <<PARENT, "a", DOT_GIT, "worktrees", "b">>
    [] chunk = "/w/a/.git" -> <<ROOT, "w", "a", DOT_GIT>>
    [] chunk = "../README" -> <<PARENT, "README">>
    [] chunk = "/gone" -> <<ROOT, "gone">>
    [] OTHER -> <<chunk>>

Found(root, git_dir) == [kind |-> "some", root |-> root, git_dir |-> git_dir]
NotFound == [kind |-> "none", root |-> <<>>, git_dir |-> <<>>]
Failed(why) == [kind |-> "err", root |-> <<>>, git_dir |-> <<why>>]

\* a faulty variant: a relative path is returned as it is written, which
\* leaves it relative to the working directory
parse_gitdir_file_unjoined(fs, dot_git_file) ==
  LET contents == (CHOOSE e \in Locate(fs, dot_git_file) : TRUE).content
      trimmed == Trim(contents)
  IN  IF ~Readable(fs, dot_git_file) THEN Failed("Failed to read .git file")
      ELSE IF trimmed = <<>> \/ Head(trimmed) # GITDIR_PREFIX
        THEN Failed("Unsupported .git file format")
      ELSE LET gitdir_raw == Trim(Tail(trimmed))
           IN  IF gitdir_raw = <<>> THEN Failed("Invalid gitdir in .git file")
               ELSE Found(<<>>, PathFrom(gitdir_raw[1]))

\* the path text of a .git file is one chunk
parse_gitdir_file(fs, dot_git_file) ==
  LET contents == (CHOOSE e \in Locate(fs, dot_git_file) : TRUE).content
      trimmed == Trim(contents)
  IN  IF ~Readable(fs, dot_git_file) THEN Failed("Failed to read .git file")
      ELSE IF trimmed = <<>> \/ Head(trimmed) # GITDIR_PREFIX
        THEN Failed("Unsupported .git file format")
      ELSE LET gitdir_raw == Trim(Tail(trimmed))
           IN  IF gitdir_raw = <<>> THEN Failed("Invalid gitdir in .git file")
               ELSE LET gitdir_path == PathFrom(gitdir_raw[1])
                    IN  IF IsAbsolute(gitdir_path)
                          THEN Found(<<>>, gitdir_path)
                          ELSE Found(<<>>, PathJoin(PathParent(dot_git_file),
                                                    gitdir_path))

git_dir_from_repo_root(fs, repo_root) ==
  LET dot_git == PathJoin(repo_root, <<DOT_GIT>>)
  IN  IF IsDir(fs, dot_git) THEN Found(repo_root, dot_git)
      ELSE IF IsFile(fs, dot_git)
        THEN LET parsed == parse_gitdir_file(fs, dot_git)
             IN  IF parsed.kind = "err" THEN parsed
                 ELSE Found(repo_root, parsed.git_dir)
      ELSE NotFound

RECURSIVE find_git_repo(_, _)
find_git_repo(fs, start) ==
  LET here == git_dir_from_repo_root(fs, start)
  IN  IF here.kind # "none" THEN here
      ELSE IF PathParent(start) = <<>> THEN NotFound
      ELSE find_git_repo(fs, PathParent(start))

\* the directory names the scan never queues
DENY_LIST ==
  {DOT_GIT, "node_modules", "target", "dist", "build", ".venv",
   "__pycache__", ".tox", ".idea", ".vscode"}

MAX_ENTRIES == 200000

\* the names in use, in the order of their bytes; Path's Ord compares two
\* paths component by component
NAME_ORDER ==
  <<ROOT, PARENT, DOT_GIT, CARGO_TOML, "README", "a", "b", "build", "c",
    "crate", "f1", "f2", "gone", "missing", "node_modules", "outside",
    "target", "w", "worktrees">>

NameRank(name) == CHOOSE i \in 1..Len(NAME_ORDER) : NAME_ORDER[i] = name
PathLess(p, q) ==
  LexLess([i \in 1..Len(p) |-> NameRank(p[i])],
          [i \in 1..Len(q) |-> NameRank(q[i])])

\* found.sort_by(|(a, _), (b, _)| a.cmp(b)); no two elements share a root
RECURSIVE sort_by_root(_)
sort_by_root(found) ==
  IF found = <<>> THEN <<>>
  ELSE LET least == CHOOSE i \in 1..Len(found) :
                      \A j \in 1..Len(found) :
                        j # i => PathLess(found[i].root, found[j].root)
       IN  <<found[least]>>
             \o sort_by_root(SubSeq(found, 1, least - 1)
                               \o SubSeq(found, least + 1, Len(found)))

\* find_git_repos_under_dir up to its loop: the scan's local variables
StartScan(fs, scan_root, max_depth, max_entries) ==
  [scan_root |-> scan_root, max_depth |-> max_depth,
   max_entries |-> max_entries,
   queue |-> <<[dir |-> scan_root, depth |-> 0]>>,
   visited_entries |-> 0, seen_repo_roots |-> {}, found |-> <<>>,
   status |-> IF IsDir(fs, scan_root) THEN "running" ELSE "error",
   result |-> <<>>]

\* the for loop over the entries of one directory, in the order read_dir
\* hands them out
RECURSIVE ScanEntries(_, _, _)
ScanEntries(entries, st, depth) ==
  IF entries = <<>> \/ st.visited_entries >= st.max_entries THEN st
  ELSE
    LET entry == Head(entries)
        counted == [st EXCEPT !.visited_entries = @ + 1]
    IN  IF entry.kind # "dir" \/ FileName(entry.path) \in DENY_LIST
          THEN ScanEntries(Tail(entries), counted, depth)
          ELSE ScanEntries(Tail(entries),
                 [counted EXCEPT !.queue =
                    Append(@, [dir |-> entry.path, depth |-> depth + 1])],
                 depth)

\* one turn of the while loop: the directory at the head of the queue
ScanDir(fs, st, entries) ==
  LET dir == Head(st.queue).dir
      depth == Head(st.queue).depth
      popped == [st EXCEPT !.queue = Tail(@), !.visited_entries = @ + 1]
      git_dir == git_dir_from_repo_root(fs, dir)
  IN  IF git_dir.kind = "err" THEN [popped EXCEPT !.status = "error"]
      ELSE IF git_dir.kind = "some"
        THEN IF dir \in st.seen_repo_roots THEN popped
             ELSE [popped EXCEPT
                     !.seen_repo_roots = @ \cup {dir},
                     !.found = Append(@, [root |-> dir,
                                          git_dir |-> git_dir.git_dir])]
      ELSE IF depth >= st.max_depth THEN popped
      ELSE IF ~Readable(fs, dir) THEN popped
      ELSE ScanEntries(entries, popped, depth)

\* the loop is left when the queue is empty or the budget is used up
LoopDone(st) == st.queue = <<>> \/ st.visited_entries >= st.max_entries

ScanReturn(st) ==
  [st EXCEPT !.status = "done", !.result = sort_by_root(st.found)]

\* the orders read_dir can hand a directory's entries out in
Orders(entries) ==
  {o \in [1..Cardinality(entries) -> entries] :
     \A i, j \in 1..Cardinality(entries) : o[i] = o[j] => i = j}

\* a directory's entries in the order of their names
RECURSIVE InNameOrder(_)
InNameOrder(entries) ==
  IF entries = {} THEN <<>>
  ELSE LET least == CHOOSE e \in entries :
                      \A f \in entries \ {e} : PathLess(e.path, f.path)
       IN  <<least>> \o InNameOrder(entries \ {least})

\* ---------------------------------------------------------- cargo_repo.rs
MANIFEST_SCAN_DEPTH == 6
MANIFEST_SCAN_ENTRIES == 8000
MANIFEST_DENY_LIST == {DOT_GIT, "target", "node_modules"}
NoManifestDir == <<"no --manifest-dir">>

HasManifest(fs, dir) == IsFile(fs, PathJoin(dir, <<CARGO_TOML>>))

Accepted(dir, candidates) ==
  [kind |-> "ok", dir |-> dir, err |-> "", candidates |-> candidates]
Rejected(err, about, candidates) ==
  [kind |-> "err", dir |-> about, err |-> err, candidates |-> candidates]

normalize_path(repo_root, input) == PathJoin(repo_root, input)

\* TRUE for Ok(()): the components of repo_root begin those of candidate
ensure_is_within_repo(repo_root, candidate) ==
  /\ Len(candidate) >= Len(repo_root)
  /\ \A i \in 1..Len(repo_root) : repo_root[i] = candidate[i]

resolve_manifest_dir_from_cli(fs, repo_root, manifest_dir) ==
  LET dir == normalize_path(repo_root, manifest_dir)
  IN  IF ~ensure_is_within_repo(repo_root, dir)
        THEN Rejected("is outside the repository", dir, <<>>)
      ELSE IF HasManifest(fs, dir) THEN Accepted(dir, <<>>)
      ELSE Rejected("does not contain a Cargo.toml", dir, <<>>)

\* a faulty variant: the walk does not stop at the repository root
RECURSIVE find_cargo_manifests_to_top(_, _, _)
find_cargo_manifests_to_top(fs, cwd, repo_root) ==
  LET here == IF HasManifest(fs, cwd) THEN <<cwd>> ELSE <<>>
  IN  IF PathParent(cwd) = <<>> THEN here
      ELSE here \o find_cargo_manifests_to_top(fs, PathParent(cwd), repo_root)

RECURSIVE find_cargo_manifests_upwards(_, _, _)
find_cargo_manifests_upwards(fs, cwd, repo_root) ==
  LET here == IF HasManifest(fs, cwd) THEN <<cwd>> ELSE <<>>
  IN  IF cwd = repo_root \/ PathParent(cwd) = <<>> THEN here
      ELSE here \o find_cargo_manifests_upwards(fs, PathParent(cwd), repo_root)

\* the entries find_cargo_manifests_bfs queues
IsQueuedByManifestScan(entry) ==
  entry.kind = "dir" /\ FileName(entry.path) \notin MANIFEST_DENY_LIST

\* the while loop of find_cargo_manifests_bfs; the entries of a directory
\* are taken in the order of their names (the caller sorts the result).
\* examined counts the directory entries the for loop went through, which
\* the code keeps no count of.
RECURSIVE ManifestScanLoop(_, _, _, _, _, _, _)
ManifestScanLoop(fs, queue, visited_entries, found, max_depth, max_entries, examined) ==
  IF queue = <<>> \/ visited_entries >= max_entries
    THEN [found |-> found, visited_entries |-> visited_entries,
          examined |-> examined]
  ELSE
    LET dir == Head(queue).dir
        depth == Head(queue).depth
        entries == IF depth >= max_depth \/ ~Readable(fs, dir) THEN <<>>
                   ELSE InNameOrder(Children(fs, dir))
        listed == SelectSeq(entries, IsQueuedByManifestScan)
        pushed == [i \in 1..Len(listed) |->
                     [dir |-> listed[i].path, depth |-> depth + 1]]
    IN  ManifestScanLoop(fs, Tail(queue) \o pushed, visited_entries + 1,
                         IF HasManifest(fs, dir) THEN Append(found, dir)
                                                 ELSE found,
                         max_depth, max_entries, examined + Len(entries))

\* the scan with its counters
ManifestScan(fs, repo_root, max_depth, max_entries) ==
  ManifestScanLoop(fs, <<[dir |-> repo_root, depth |-> 0]>>, 0, <<>>,
                   max_depth, max_entries, 0)

find_cargo_manifests_bfs(fs, repo_root, max_depth, max_entries) ==
  ManifestScan(fs, repo_root, max_depth, max_entries).found

\* Vec::sort() followed by Vec::dedup()
RECURSIVE SortedPaths(_)
SortedPaths(paths) ==
  IF paths = {} THEN <<>>
  ELSE LET least == CHOOSE p \in paths : \A q \in paths \ {p} : PathLess(p, q)
       IN  <<least>> \o SortedPaths(paths \ {least})

sort_dedup(dirs) == SortedPaths({dirs[i] : i \in 1..Len(dirs)})

\* a faulty variant: with several candidates and no prompt allowed, the
\* first one is taken
resolve_taking_first(fs, maybe_manifest_dir, cwd, repo_root, options, selected) ==
  IF maybe_manifest_dir # NoManifestDir
    THEN resolve_manifest_dir_from_cli(fs, repo_root, maybe_manifest_dir)
  ELSE
    LET upwards == find_cargo_manifests_upwards(fs, cwd, repo_root)
        manifest_dirs ==
          sort_dedup(IF upwards # <<>> THEN upwards
                     ELSE find_cargo_manifests_bfs(fs, repo_root,
                            MANIFEST_SCAN_DEPTH, MANIFEST_SCAN_ENTRIES))
    IN  IF manifest_dirs = <<>>
          THEN Rejected("No Cargo.toml found in git repository", repo_root,
                        manifest_dirs)
        ELSE IF Len(manifest_dirs) = 1 \/ options.non_interactive \/ options.yes
          THEN Accepted(manifest_dirs[1], manifest_dirs)
        ELSE IF selected + 1 > Len(manifest_dirs)
          THEN Rejected("Invalid selection", <<>>, manifest_dirs)
        ELSE Accepted(manifest_dirs[selected + 1], manifest_dirs)

\* selected is the index the prompt returns when it is shown; the result
\* carries the sorted candidate list the decision was made on
resolve_cargo_manifest_dir(fs, maybe_manifest_dir, cwd, repo_root, options, selected) ==
  IF maybe_manifest_dir # NoManifestDir
    THEN resolve_manifest_dir_from_cli(fs, repo_root, maybe_manifest_dir)
  ELSE
    LET upwards == find_cargo_manifests_upwards(fs, cwd, repo_root)
        manifest_dirs ==
          sort_dedup(IF upwards # <<>> THEN upwards
                     ELSE find_cargo_manifests_bfs(fs, repo_root,
                            MANIFEST_SCAN_DEPTH, MANIFEST_SCAN_ENTRIES))
    IN  IF manifest_dirs = <<>>
          THEN Rejected("No Cargo.toml found in git repository", repo_root,
                        manifest_dirs)
        ELSE IF Len(manifest_dirs) = 1
          THEN Accepted(manifest_dirs[1], manifest_dirs)
        ELSE IF options.non_interactive \/ options.yes
          THEN Rejected("Multiple Cargo.toml files found", <<>>, manifest_dirs)
        ELSE IF selected + 1 > Len(manifest_dirs)
          THEN Rejected("Invalid selection", <<>>, manifest_dirs)
        ELSE Accepted(manifest_dirs[selected + 1], manifest_dirs)

\* ------------------------------------------------------------ input sets
BEGIN_LINE == <<MANAGED_BLOCK_BEGIN>>
END_LINE == <<MANAGED_BLOCK_END>>
ENABLED_LINE == <<GHI_ENABLED_EQ, "1">>
INDENTED_ENABLED_LINE == <<SPACE, GHI_ENABLED_EQ, "1">>
ECHO_LINE == <<"echo hi">>
BLANK_LINE == <<>>

LineSet ==
  {BLANK_LINE, <<SHEBANG>>, BEGIN_LINE, END_LINE, ENABLED_LINE,
   INDENTED_ENABLED_LINE, ECHO_LINE}

LineSeqs(n) == UNION {[1..k -> LineSet] : k \in 0..n}

\* the text whose lines are ls, each ended by eol, the last one only if fin
RECURSIVE Terminate(_, _, _)
Terminate(ls, eol, fin) ==
  IF ls = <<>> THEN <<>>
  ELSE IF Len(ls) = 1 THEN ls[1] \o (IF fin THEN eol ELSE <<>>)
  ELSE ls[1] \o eol \o Terminate(Tail(ls), eol, fin)

Eols == {<<LF>>, <<CR, LF>>}

ExistingTexts ==
  {Terminate(ls, eol, fin) :
     ls \in LineSeqs(MaxLines), eol \in Eols, fin \in BOOLEAN}

BlockLineSeqs ==
  {<<BEGIN_LINE, ENABLED_LINE, END_LINE>>,
   <<BEGIN_LINE, END_LINE>>,
   <<BEGIN_LINE, INDENTED_ENABLED_LINE, ENABLED_LINE, END_LINE>>,
   <<BEGIN_LINE, ENABLED_LINE, END_LINE, BLANK_LINE>>,
   <<<<SHEBANG>>, BEGIN_LINE, ENABLED_LINE, END_LINE>>,
   <<ECHO_LINE>>}

Blocks ==
  {Terminate(ls, <<LF>>, TRUE) : ls \in BlockLineSeqs}
  \cup {Terminate(<<BEGIN_LINE, ENABLED_LINE, END_LINE>>, <<CR, LF>>, TRUE),
        Terminate(<<BEGIN_LINE, ENABLED_LINE, END_LINE>>, <<LF>>, FALSE)}

\* ------------------------------------------------ directory trees to scan
W == <<ROOT, "w">>
Under(names) == W \o names
Skeleton == {Dir(<<ROOT>>), Dir(W)}
GitdirFile(p, text) == File(p \o <<DOT_GIT>>, <<GITDIR_PREFIX, SPACE, text, LF>>)

Trees ==
  {
   \* a repository two levels down (find_git_repos_under_dir_respects_max_depth)
   Skeleton \cup {Dir(Under(<<"a">>)), Dir(Under(<<"a", "b">>)),
                  Dir(Under(<<"a", "b", DOT_GIT>>))},
   \* two repositories side by side, one of them with a repository inside it
   Skeleton \cup {Dir(Under(<<"a">>)), Dir(Under(<<"a", DOT_GIT>>)),
                  Dir(Under(<<"a", "c">>)), Dir(Under(<<"a", "c", DOT_GIT>>)),
                  Dir(Under(<<"b">>)), Dir(Under(<<"b", DOT_GIT>>)),
                  File(Under(<<"README">>), <<>>)},
   \* a repository in a directory called build, one below node_modules
   Skeleton \cup {Dir(Under(<<"build">>)), Dir(Under(<<"build", DOT_GIT>>)),
                  Dir(Under(<<"node_modules">>)),
                  Dir(Under(<<"node_modules", "a">>)),
                  Dir(Under(<<"node_modules", "a", DOT_GIT>>)),
                  Dir(Under(<<"b">>)), Dir(Under(<<"b", DOT_GIT>>))},
   \* the scan root is a repository itself
   Skeleton \cup {Dir(Under(<<DOT_GIT>>)), Dir(Under(<<"a">>)),
                  Dir(Under(<<"a", DOT_GIT>>))},
   \* a repository and a worktree of it, linked by a relative path
   Skeleton \cup {Dir(Under(<<"a">>)), Dir(Under(<<"a", DOT_GIT>>)),
                  Dir(Under(<<"a", DOT_GIT, "worktrees">>)),
                  Dir(Under(<<"a", DOT_GIT, "worktrees", "b">>)),
                  Dir(Under(<<"b">>)),
                  GitdirFile(Under(<<"b">>), "../a/.git/worktrees/b")},
   \* .git files that point at nothing and at a regular file
   Skeleton \cup {Dir(Under(<<"a">>)), GitdirFile(Under(<<"a">>), "/gone"),
                  Dir(Under(<<"b">>)), GitdirFile(Under(<<"b">>), "../README"),
                  File(Under(<<"README">>), <<>>)},
   \* a .git file that is not a gitdir file, next to a repository
   Skeleton \cup {Dir(Under(<<"a">>)),
                  File(Under(<<"a", DOT_GIT>>), <<"ref:", SPACE, "x", LF>>),
                  Dir(Under(<<"b">>)), Dir(Under(<<"b", DOT_GIT>>))},
   \* a directory that cannot be listed, next to a repository
   Skeleton \cup {LockedDir(Under(<<"a">>)), Dir(Under(<<"a", "c">>)),
                  Dir(Under(<<"a", "c", DOT_GIT>>)),
                  Dir(Under(<<"b">>)), Dir(Under(<<"b", DOT_GIT>>))},
   \* regular files among the repositories
   Skeleton \cup {File(Under(<<"f1">>), <<>>), File(Under(<<"f2">>), <<>>),
                  Dir(Under(<<"a">>)), Dir(Under(<<"a", DOT_GIT>>)),
                  Dir(Under(<<"b">>)), Dir(Under(<<"b", DOT_GIT>>))}}

\* what a .git file can hold
GitdirContents ==
  {<<GITDIR_PREFIX, SPACE, "../a/.git/worktrees/b", LF>>,
   <<GITDIR_PREFIX, "/w/a/.git">>,
   <<SPACE, LF, GITDIR_PREFIX, SPACE, SPACE, "/w/a/.git", SPACE, CR, LF>>,
   <<GITDIR_PREFIX, SPACE, "/gone", LF>>,
   <<GITDIR_PREFIX, SPACE, "../README", LF>>,
   <<GITDIR_PREFIX, SPACE, CR, LF>>,
   <<GITDIR_PREFIX>>,
   <<>>,
   <<"ref:", SPACE, "x", LF>>,
   <<"/w/a/.git", LF>>}

\* the worktree tree with each of them in b/.git, b/c a directory below
WorktreeTrees ==
  {Skeleton \cup {Dir(Under(<<"a">>)), Dir(Under(<<"a", DOT_GIT>>)),
                  Dir(Under(<<"a", DOT_GIT, "worktrees">>)),
                  Dir(Under(<<"a", DOT_GIT, "worktrees", "b">>)),
                  File(Under(<<"README">>), <<>>),
                  Dir(Under(<<"b">>)), Dir(Under(<<"b", "c">>)),
                  File(Under(<<"b", DOT_GIT>>), c)} : c \in GitdirContents}

ScanRoots == {W, Under(<<"a">>), Under(<<"README">>)}
Depths == 0..MaxDepth
\* the budget is MAX_ENTRIES; the smaller ones stand for it in front of
\* trees of a few entries
Budgets == {MAX_ENTRIES} \cup 1..MaxBudget

\* ----------------------------------------- trees to resolve a manifest in
Outside == <<ROOT, "outside">>
Manifest(dir) == File(dir \o <<CARGO_TOML>>, <<>>)
Repository == Skeleton \cup {Dir(Under(<<DOT_GIT>>)), Dir(Outside)}

CargoTrees ==
  {
   \* a workspace: a manifest at the root and in two member crates, and one in
   \* a directory next to the repository
   Repository \cup {Manifest(W), Dir(Under(<<"crate">>)),
                    Manifest(Under(<<"crate">>)), Dir(Under(<<"a">>)),
                    Manifest(Under(<<"a">>)), Dir(Under(<<"b">>)),
                    Manifest(Outside)},
   \* one crate below the root
   Repository \cup {Dir(Under(<<"crate">>)), Manifest(Under(<<"crate">>)),
                    Dir(Under(<<"a">>))},
   \* two crates below a root without a manifest, a third one in target
   Repository \cup {Dir(Under(<<"crate">>)), Manifest(Under(<<"crate">>)),
                    Dir(Under(<<"a">>)), Manifest(Under(<<"a">>)),
                    Dir(Under(<<"b">>)), Dir(Under(<<"target">>)),
                    Manifest(Under(<<"target">>))},
   \* no manifest in the repository, one next to it
   Repository \cup {Dir(Under(<<"a">>)), Manifest(Outside)}}

\* the values of --manifest-dir
ManifestDirInputs ==
  {NoManifestDir, <<"crate">>, <<"b">>, <<"missing">>, <<ROOT, "w", "a">>,
   <<ROOT, "outside">>, <<ROOT>>, <<PARENT, "outside">>,
   <<"crate", PARENT, PARENT, "outside">>, <<"crate", PARENT, "a">>}

ResolveOptions == [yes : BOOLEAN, non_interactive : BOOLEAN]
Selections == {0, 1}

\* ------------------------------------------------------------------ state
VARIABLES
  text,         \* engine: the current hook text, or NoFile
  block,        \* the block text handed to upsert
  hist,         \* engine: the operations applied so far
  hook,         \* hooks/pre-commit: its contents, or NoFile
  exec,         \* hooks/pre-commit: whether its mode has an execute bit
  snapshots,    \* the pre-commit.snapshot-* files: name, content (and birth)
  backups,      \* the pre-commit.bak[.n] files: counter n and content
  now,          \* the clock, in seconds
  max_snapshots,\* snapshot store: the retention count in use
  ops,          \* number of operations run so far
  faults,       \* number of them run while some file system call fails
  log,          \* the operations run: what each found, did and returned
  tree,         \* the file system a scan or a lookup runs on
  scan,         \* find_git_repos_under_dir: its arguments, locals and result
  call,         \* the last call made: its arguments and its result
  dir           \* the hooks directory: its entries by name

engineVars == <<text, hist>>
fileVars ==
  <<hook, exec, snapshots, backups, now, max_snapshots, ops, faults, log>>
repoVars == <<tree, scan, call, dir>>
vars == <<text, block, hist, hook, exec, snapshots, backups, now,
          max_snapshots, ops, faults, log, tree, scan, call, dir>>

NoOp == [op |-> "none", ok |-> TRUE, before |-> NoFile, trace |-> <<>>]
Last == IF log = <<>> THEN NoOp ELSE log[Len(log)]

NoCall == [fn |-> "none"]
RepoIdle ==
  tree = {} /\ scan = [status |-> "idle"] /\ call = NoCall /\ dir = {}

EngineIdle == text = NoFile /\ hist = <<>>
FilesIdle ==
  /\ hook = NoFile /\ exec = FALSE /\ snapshots = {} /\ backups = {}
  /\ now = 0 /\ max_snapshots = DEFAULT_MAX_SNAPSHOTS /\ ops = 0
  /\ faults = 0 /\ log = <<>>

\* ------------------------------------------- the engine on bounded inputs
InitPure ==
  /\ text \in ExistingTexts \cup {NoFile}
  /\ block \in Blocks
  /\ hist = <<>>
  /\ FilesIdle
  /\ RepoIdle

Applied(op, r) ==
  Append(hist, [op |-> op, input |-> text, ok |-> r.ok, out |-> r.text])

PUpsert ==
  /\ Len(hist) < MaxSteps
  /\ LET r == Ok(upsert_text(text, block))
     IN  /\ hist' = Applied("upsert", r)
         /\ text' = r.text
  /\ UNCHANGED <<block, fileVars, repoVars>>

PUninstall ==
  /\ Len(hist) < MaxSteps
  /\ text # NoFile
  /\ LET r == uninstall_managed_block(text)
     IN  /\ hist' = Applied("uninstall", r)
         /\ text' = IF r.ok THEN r.text ELSE text
  /\ UNCHANGED <<block, fileVars, repoVars>>

PDisable ==
  /\ Len(hist) < MaxSteps
  /\ text # NoFile
  /\ LET r == disable_managed_block(text)
     IN  /\ hist' = Applied("disable", r)
         /\ text' = IF r.ok THEN r.text ELSE text
  /\ UNCHANGED <<block, fileVars, repoVars>>

NextPure == PUpsert \/ PUninstall \/ PDisable

SpecPure == InitPure /\ [][NextPure]_vars

\* ------------------------------------------- the snapshot store on its own
Contents == {<<"v1", LF>>, <<"v2", LF>>, <<"v3", LF>>}

\* snapshot files an earlier run left in the hooks directory: more of them
\* than any retention count in use, all made in the second the clock starts
\* in
OlderSnapshots ==
  {[name |-> SnapshotName(format_timestamp_for_snapshot_name(0), c),
    content |-> <<"v0", LF>>, born |-> 0] : c \in 0..MaxK}

InitSnap ==
  /\ EngineIdle
  /\ RepoIdle
  /\ block = <<>>
  /\ hook \in Contents
  /\ exec = TRUE
  /\ snapshots \in {{}, OlderSnapshots}
  /\ backups = {}
  /\ now = 0
  /\ max_snapshots \in 0..MaxK
  /\ ops = 0
  /\ faults = 0
  /\ log = <<>>

\* a caller that snapshots the hook file with retention max_snapshots and
\* then writes new content, as write_hook_with_snapshot_if_changed does
SnapWrite(updated, io) ==
  /\ ops < MaxWrites
  /\ hook # updated
  /\ LET r == create_hook_snapshot_and_prune(hook, snapshots, now,
                                             max_snapshots, io, ops + 1)
         wrote == r.ok /\ io.write_ok
     IN  /\ snapshots' = r.snaps
         /\ hook' = IF wrote THEN updated ELSE hook
         /\ log' = Append(log,
                     [op |-> "write", ok |-> wrote, before |-> hook,
                      made |-> r.ok, io |-> io, had |-> snapshots,
                      trace |-> r.trace \o
                        (IF wrote THEN WriteEffect(updated) ELSE <<>>)])
  /\ ops' = ops + 1
  /\ faults' = IF io = AllOk THEN faults ELSE faults + 1
  /\ UNCHANGED <<text, block, hist, exec, backups, now, max_snapshots,
                 repoVars>>

Tick ==
  /\ now < MaxTime
  /\ now' = now + 1
  /\ UNCHANGED <<text, block, hist, hook, exec, snapshots, backups,
                 max_snapshots, ops, faults, log, repoVars>>

NextSnap ==
  \/ \E updated \in Contents, io \in IOs : SnapWrite(updated, io)
  \/ Tick

SpecSnap == InitSnap /\ [][NextSnap]_vars

\* ------------------------------------------------ the hook file writer
HookLineSeqs ==
  {<<<<SHEBANG>>, ECHO_LINE>>,
   <<<<SHEBANG>>, BEGIN_LINE, ENABLED_LINE, END_LINE>>,
   <<<<SHEBANG>>, BEGIN_LINE, ENABLED_LINE, END_LINE, ECHO_LINE, BLANK_LINE>>,
   <<<<SHEBANG>>, ENABLED_LINE, BEGIN_LINE, END_LINE>>,
   <<BEGIN_LINE, ENABLED_LINE, END_LINE>>,
   <<<<SHEBANG>>, BEGIN_LINE, ENABLED_LINE>>,
   <<<<SHEBANG>>, <<SPACE, MANAGED_BLOCK_BEGIN>>, END_LINE>>}

HookTexts == {Terminate(ls, <<LF>>, TRUE) : ls \in HookLineSeqs}

HookBlocks ==
  {Terminate(<<BEGIN_LINE, ENABLED_LINE, END_LINE>>, <<LF>>, TRUE),
   Terminate(<<BEGIN_LINE, ENABLED_LINE, END_LINE>>, <<LF>>, FALSE),
   Terminate(<<BEGIN_LINE, ENABLED_LINE, END_LINE>>, <<CR, LF>>, TRUE),
   Terminate(<<ECHO_LINE>>, <<LF>>, TRUE)}

Options == [yes : BOOLEAN, non_interactive : BOOLEAN, force : BOOLEAN]
\* the answers the prompt can get; there is none to give when the options
\* settle the matter without a prompt
Answers(options) ==
  IF options.force \/ options.yes \/ options.non_interactive
    THEN {FALSE} ELSE BOOLEAN

Init ==
  /\ EngineIdle
  /\ RepoIdle
  /\ block \in HookBlocks
  /\ hook \in HookTexts \cup {NoFile}
  /\ exec \in (IF hook = NoFile THEN {FALSE} ELSE BOOLEAN)
  /\ snapshots = {}
  /\ backups = {}
  /\ now = 0
  /\ max_snapshots = DEFAULT_MAX_SNAPSHOTS
  /\ ops = 0
  /\ faults = 0
  /\ log = <<>>

\* what an operation that does not call handle_existing_hook logs for it
NotAsked ==
  [asked |-> FALSE,
   options |-> [yes |-> FALSE, non_interactive |-> FALSE, force |-> FALSE],
   confirm |-> FALSE, copy_ok |-> TRUE]

\* an operation that returned r leaves r's files behind; consent is the
\* call of handle_existing_hook it made, if any, and whether fs::copy works
Ran(op, r, io, consent) ==
  /\ hook' = r.hook
  /\ snapshots' = r.snaps
  /\ backups' = r.baks
  /\ log' = Append(log, [op |-> op, ok |-> r.ok, before |-> hook,
                        trace |-> r.trace, consent |-> consent])
  /\ ops' = ops + 1
  /\ faults' = IF io = AllOk THEN faults ELSE faults + 1
  /\ UNCHANGED <<text, block, hist, now, max_snapshots, repoVars>>

\* upsert_managed_pre_commit_hook: the file is made executable when the
\* upsert returned Ok; a file the upsert creates starts without the bit
RunUpsert(options, confirm, io) ==
  LET r == upsert_managed_block_in_file(hook, snapshots, backups, now,
                                        block, options, confirm, io,
                                        ops + 1)
      consent == IF hook # NoFile /\ ~has_managed(hook)
                   THEN [asked |-> TRUE, options |-> options,
                         confirm |-> confirm, copy_ok |-> io.copy_ok]
                   ELSE NotAsked
  IN  /\ Ran("upsert", r, io, consent)
      /\ exec' = IF r.ok THEN TRUE ELSE exec

Upsert(options, confirm, io) ==
  /\ ops < MaxOps
  /\ RunUpsert(options, confirm, io)

Disable(io) ==
  /\ ops < MaxOps
  /\ LET r == disable_managed_pre_commit_hook(hook, snapshots, backups, now,
                                              io, ops + 1)
     IN  /\ Ran("disable", r, io, NotAsked)
         /\ exec' = exec

Uninstall(io) ==
  /\ ops < MaxOps
  /\ LET r == uninstall_managed_pre_commit_hook(hook, snapshots, backups,
                                                now, io, ops + 1)
     IN  /\ Ran("uninstall", r, io, NotAsked)
         /\ exec' = IF r.hook = NoFile THEN FALSE ELSE exec

\* the first two operations installed the block where there was no hook
\* file and uninstalled it again
InstalledAndUninstalled ==
  /\ Len(log) = 2
  /\ log[1].op = "upsert" /\ log[1].before = NoFile /\ log[1].ok
  /\ log[2].op = "uninstall" /\ log[2].ok

\* the install that follows an install and an uninstall
Reinstall(options, confirm, io) ==
  /\ InstalledAndUninstalled
  /\ ops <= MaxOps
  /\ RunUpsert(options, confirm, io)

\* the operations run within one second of the clock, where the names of
\* their snapshots collide
Next ==
  \/ \E options \in Options, io \in IOs :
       \E confirm \in Answers(options) : Upsert(options, confirm, io)
  \/ \E io \in IOs : Disable(io)
  \/ \E io \in IOs : Uninstall(io)
  \/ \E options \in Options, io \in IOs :
       \E confirm \in Answers(options) : Reinstall(options, confirm, io)

Spec == Init /\ [][Next]_vars

\* ------------------------------------------------- the repository scan
InitScan ==
  /\ EngineIdle /\ block = <<>> /\ FilesIdle
  /\ tree \in Trees
  /\ \E scan_root \in ScanRoots, max_depth \in Depths, max_entries \in Budgets :
       scan = StartScan(tree, scan_root, max_depth, max_entries)
  /\ call = NoCall
  /\ dir = {}

\* one turn of the loop, read_dir handing the entries out in some order
ScanStep(order) ==
  /\ scan.status = "running" /\ ~LoopDone(scan)
  /\ scan' = ScanDir(tree, scan, order)
  /\ UNCHANGED <<engineVars, block, fileVars, tree, call, dir>>

Return ==
  /\ scan.status = "running" /\ LoopDone(scan)
  /\ scan' = ScanReturn(scan)
  /\ UNCHANGED <<engineVars, block, fileVars, tree, call, dir>>

\* the entries of the directory at the head of the queue
Listing ==
  IF scan.status # "running" \/ scan.queue = <<>> THEN {}
  ELSE Children(tree, Head(scan.queue).dir)

NextScan ==
  \/ \E order \in Orders(Listing) : ScanStep(order)
  \/ Return

SpecScan == InitScan /\ [][NextScan]_vars

\* ------------------------------------------------ the repository lookups
InitLookup ==
  /\ EngineIdle /\ block = <<>> /\ FilesIdle
  /\ tree \in Trees \cup WorktreeTrees
  /\ scan = [status |-> "idle"]
  /\ call = NoCall
  /\ dir = {}

Directories(fs) == {e.path : e \in {f \in fs : f.kind = "dir"}}

FindGitRepo(start) ==
  /\ call' = [fn |-> "find_git_repo", arg |-> start,
              result |-> find_git_repo(tree, start)]
  /\ UNCHANGED <<engineVars, block, fileVars, tree, scan, dir>>

GitDirFromRepoRoot(repo_root) ==
  /\ call' = [fn |-> "git_dir_from_repo_root", arg |-> repo_root,
              result |-> git_dir_from_repo_root(tree, repo_root)]
  /\ UNCHANGED <<engineVars, block, fileVars, tree, scan, dir>>

NextLookup ==
  \/ \E start \in Directories(tree) : FindGitRepo(start)
  \/ \E repo_root \in Directories(tree) : GitDirFromRepoRoot(repo_root)

SpecLookup == InitLookup /\ [][NextLookup]_vars

\* ------------------------------------------------ the manifest resolution
InitCargo ==
  /\ EngineIdle /\ block = <<>> /\ FilesIdle
  /\ tree \in CargoTrees
  /\ scan = [status |-> "idle"]
  /\ call = NoCall
  /\ dir = {}

\* the directories under the repository root, where the command is run
WorkingDirs(fs) == {p \in Directories(fs) : ensure_is_within_repo(W, p)}

ResolveCargoManifestDir(maybe_manifest_dir, cwd, options, selected) ==
  /\ call' = [fn |-> "resolve_cargo_manifest_dir",
              arg |-> maybe_manifest_dir, cwd |-> cwd, options |-> options,
              selected |-> selected,
              result |-> resolve_cargo_manifest_dir(
                           tree, maybe_manifest_dir, cwd, W, options,
                           selected)]
  /\ UNCHANGED <<engineVars, block, fileVars, tree, scan, dir>>

\* find_cargo_manifests_bfs from the repository root, with a budget small
\* enough for these trees to use up, or the one the code passes
FindCargoManifestsBfs(max_depth, max_entries) ==
  /\ call' = [fn |-> "find_cargo_manifests_bfs", arg |-> W,
              max_depth |-> max_depth, max_entries |-> max_entries,
              result |-> ManifestScan(tree, W, max_depth, max_entries)]
  /\ UNCHANGED <<engineVars, block, fileVars, tree, scan, dir>>

\* find_cargo_manifests_upwards from any directory towards any other
FindCargoManifestsUpwards(cwd, repo_root) ==
  /\ call' = [fn |-> "find_cargo_manifests_upwards", cwd |-> cwd,
              repo_root |-> repo_root,
              result |-> find_cargo_manifests_upwards(tree, cwd, repo_root)]
  /\ UNCHANGED <<engineVars, block, fileVars, tree, scan, dir>>

NextCargo ==
  \/ \E cwd \in Directories(tree), repo_root \in Directories(tree) :
       FindCargoManifestsUpwards(cwd, repo_root)
  \/ \E maybe_manifest_dir \in ManifestDirInputs, cwd \in WorkingDirs(tree) :
       \E options \in ResolveOptions, selected \in Selections :
         ResolveCargoManifestDir(maybe_manifest_dir, cwd, options, selected)
  \/ \E max_depth \in Depths \cup {MANIFEST_SCAN_DEPTH} :
       \E max_entries \in 1..MaxBudget \cup {MANIFEST_SCAN_ENTRIES} :
         FindCargoManifestsBfs(max_depth, max_entries)

SpecCargo == InitCargo /\ [][NextCargo]_vars

\* ------------------------------------------- the copies of the hook file
HookFile == FileNamed(PRE_COMMIT_HOOK_NAME, "", <<>>)
Snapshot(rest) == FileNamed(PRE_COMMIT_HOOK_NAME, SNAPSHOT_EXT, rest)

\* what else a hooks directory holds: a sample, another hook and a snapshot
\* of it, a file and a directory with names close to a snapshot's
Foreign ==
  {Entry(FileNamed(PRE_COMMIT_HOOK_NAME, ".sample", <<>>), "file", <<"s", LF>>),
   Entry(FileNamed("pre-push", "", <<>>), "file", <<"p", LF>>),
   Entry(FileNamed("pre-push", SNAPSHOT_EXT, <<Digit(0), Digit(0)>>), "file",
         <<"p0", LF>>),
   Entry(FileNamed(PRE_COMMIT_HOOK_NAME, ".snapshots", <<>>), "dir", <<>>),
   Entry(FileNamed(PRE_COMMIT_HOOK_NAME, ".snapshot", <<>>), "file",
         <<"n", LF>>)}

\* copies an earlier run left: snapshots of the second the clock is in, one
\* of them a directory, and backups
Earlier ==
  {Entry(Snapshot(SnapshotName(format_timestamp_for_snapshot_name(0), c)),
         "file", <<"v0", LF>>) : c \in 0..MaxK}
  \cup {Entry(Snapshot(SnapshotName(format_timestamp_for_snapshot_name(0),
                                    MaxK + 1)), "dir", <<>>),
        Entry(BackupName(PRE_COMMIT_HOOK_NAME, 0), "file", <<"b0", LF>>),
        Entry(BackupName(PRE_COMMIT_HOOK_NAME, 1), "file", <<"b1", LF>>)}

\* every name a snapshot of this second can get is taken, and every name
\* a backup can get but the last one the loop tries
Crowded ==
  {Entry(Snapshot(SnapshotName(format_timestamp_for_snapshot_name(0), c)),
         "file", <<"v0", LF>>) : c \in 0..NAME_COUNTER_CAP}
  \cup {Entry(BackupName(PRE_COMMIT_HOOK_NAME, c), "file", <<"b0", LF>>) :
          c \in 0..(NAME_COUNTER_CAP - 1)}

HooksDirs ==
  {{Entry(HookFile, "file", <<"v1", LF>>)},
   {Entry(HookFile, "file", <<"v1", LF>>)} \cup Foreign \cup Earlier,
   {Entry(HookFile, "dir", <<>>)} \cup Foreign \cup Earlier,
   Foreign \cup Earlier}

CrowdedDirs ==
  {{Entry(HookFile, "file", <<"v1", LF>>)} \cup Crowded}

\* neither call writes a file
DirIOs == {io \in IOs : io.write_ok}

\* a run has one --max-snapshots for all its calls; in a crowded directory
\* the option is left at its default
InitDir ==
  /\ EngineIdle /\ block = <<>>
  /\ hook = NoFile /\ exec = FALSE /\ snapshots = {} /\ backups = {}
  /\ now = 0 /\ ops = 0 /\ faults = 0 /\ log = <<>>
  /\ tree = {}
  /\ scan = [status |-> "idle"]
  /\ call = NoCall
  /\ \/ dir \in HooksDirs /\ max_snapshots \in 0..MaxK
     \/ dir \in CrowdedDirs /\ max_snapshots = DEFAULT_MAX_SNAPSHOTS

CreateSnapshot(io) ==
  /\ ops < MaxSteps
  /\ ops' = ops + 1
  /\ \E r \in {SnapshotIn(dir, PRE_COMMIT_HOOK_NAME, now, max_snapshots, io)} :
         /\ dir' = r.dir
         /\ call' = [fn |-> "create_hook_snapshot_and_prune", ok |-> r.ok,
                     before |-> dir]
  /\ UNCHANGED <<engineVars, block, hook, exec, snapshots, backups, now,
                 max_snapshots, faults, log, tree, scan>>

BackupExistingHook(io) ==
  /\ ops < MaxSteps
  /\ \E e \in dir : e.name = HookFile /\ e.kind = "file"
  /\ ops' = ops + 1
  /\ \E r \in {BackupIn(dir, PRE_COMMIT_HOOK_NAME, io)} :
         /\ dir' = r.dir
         /\ call' = [fn |-> "backup_existing_hook", ok |-> r.ok,
                     before |-> dir]
  /\ UNCHANGED <<engineVars, block, hook, exec, snapshots, backups, now,
                 max_snapshots, faults, log, tree, scan>>

NextDir ==
  \/ \E io \in DirIOs : CreateSnapshot(io)
  \/ \E io \in DirIOs : BackupExistingHook(io)

SpecDir == InitDir /\ [][NextDir]_vars

\* ------------------------------------------------- claims on the engine
Steps == 1..Len(hist)

\* the block the code works on in a text, as a range of its lines
HasBlock(t) ==
  LET m == FindMarkers(Lines(t)) IN m.start # 0 /\ m.end # 0
LinesBefore(t) ==
  LET ls == Lines(t) IN SubSeq(ls, 1, FindMarkers(ls).start - 1)
LinesAfter(t) ==
  LET ls == Lines(t) IN SubSeq(ls, FindMarkers(ls).end + 1, Len(ls))

\* lines os are lines ls, with at most a shebang line put in front
SameUpToShebang(os, ls) == os = ls \/ os = << <<SHEBANG>> >> \o ls

\* a begin marker line, body lines that are not marker lines, an end marker
\* line
IsMarkedBlock(b) ==
  LET ls == Lines(b)
  IN  /\ Len(ls) >= 2
      /\ ls[1] = BEGIN_LINE
      /\ ls[Len(ls)] = END_LINE
      /\ \A j \in 2..(Len(ls) - 1) : ls[j] \notin {BEGIN_LINE, END_LINE}

\* C1: upsert is idempotent: upserting the same block into the result of an
\* upsert returns that result byte for byte (stated here for the blocks that
\* carry their marker lines, where it already fails).
C1_UpsertIdempotent ==
  \A i \in Steps :
    (hist[i].op = "upsert" /\ hist[i].input # NoFile /\ IsMarkedBlock(block))
      => upsert_managed_block(hist[i].out, block) = hist[i].out

\* C4: upsert into a text with a block replaces the block's lines by the
\* lines of the new block and keeps every line before and after it, blank
\* lines at the end of the file included.
C4_UpsertKeepsSurroundingLines ==
  \A i \in Steps :
    (hist[i].op = "upsert" /\ hist[i].input # NoFile /\ HasBlock(hist[i].input))
      => SameUpToShebang(Lines(hist[i].out),
                         LinesBefore(hist[i].input) \o Lines(block)
                           \o LinesAfter(hist[i].input))

\* the first begin marker line has no end marker line after it, or has an
\* end marker line before it
Malformed(t) ==
  LET ls == Lines(t)
      begins == {i \in 1..Len(ls) : ls[i] = BEGIN_LINE}
      ends == {i \in 1..Len(ls) : ls[i] = END_LINE}
  IN  /\ begins # {}
      /\ LET b0 == CHOOSE b \in begins : \A c \in begins : b <= c
         IN  \/ \A e \in ends : e < b0
             \/ \E e \in ends : e < b0

\* C5: upsert, disable and uninstall each fail on a text with a malformed
\* managed block.
C5_MalformedBlockIsError ==
  \A i \in Steps :
    (hist[i].input # NoFile /\ Malformed(hist[i].input)) => ~hist[i].ok

\* disable and uninstall do fail on every such text
MalformedIsErrorForDisableUninstall ==
  \A i \in Steps :
    (hist[i].op # "upsert" /\ Malformed(hist[i].input)) => ~hist[i].ok

EnabledLinesInBlock(t) ==
  LET ls == Lines(t)
      m == FindMarkers(ls)
  IN  {j \in m.start..m.end : IsEnabledLine(ls[j])}

\* the line with the flag's value set to 0, indentation kept or dropped
ValueSetToZero(line) ==
  {<<GHI_ENABLED_EQ, "0">>,
   SubSeq(line, 1, Len(line) - Len(TrimStart(line))) \o <<GHI_ENABLED_EQ, "0">>}

\* C6: disable returns the lines of a text whose block sets the flag with
\* the one flag-setting line set to 0 and every other line unchanged.
C6_DisableChangesOneLine ==
  \A i \in Steps :
    (/\ hist[i].op = "disable"
     /\ HasBlock(hist[i].input)
     /\ Cardinality(EnabledLinesInBlock(hist[i].input)) = 1)
      => LET ls == Lines(hist[i].input)
             os == Lines(hist[i].out)
         IN  /\ hist[i].ok
             /\ Len(os) = Len(ls)
             /\ \A j \in 1..Len(ls) :
                  IF j \in EnabledLinesInBlock(hist[i].input)
                    THEN os[j] \in ValueSetToZero(ls[j])
                    ELSE os[j] = ls[j]

\* C8: uninstall returns the lines before the block followed by the lines
\* after it, and fails when the text has no block.
C8_UninstallRemovesExactlyBlock ==
  \A i \in Steps :
    hist[i].op = "uninstall"
      => IF HasBlock(hist[i].input)
           THEN /\ hist[i].ok
                /\ Lines(hist[i].out)
                     = LinesBefore(hist[i].input) \o LinesAfter(hist[i].input)
           ELSE ~hist[i].ok

InstalledThenUninstalled(i) ==
  /\ i \in Steps /\ i + 1 \in Steps
  /\ hist[i].op = "upsert" /\ hist[i].input = NoFile
  /\ hist[i + 1].op = "uninstall"
  /\ IsMarkedBlock(block)

\* C9: uninstall of the text upsert writes when there is no hook file is the
\* shebang line alone.
C9_RoundTripFromNothing ==
  \A i \in Steps :
    InstalledThenUninstalled(i)
      => hist[i + 1].ok /\ hist[i + 1].out = <<SHEBANG, LF>>

C9_Witness ==
  /\ InstalledThenUninstalled(1)
  /\ Len(Lines(block)) > 2
  /\ Contains(block, CR)

NoMarkerLine(t) ==
  \A j \in 1..Len(Lines(t)) : Lines(t)[j] \notin {BEGIN_LINE, END_LINE}

\* the lines C13 describes: the block's lines after the leading shebang line
\* of the existing text, or first when it has none, with a blank line
\* between them and the existing lines on each side that has any
InsertedLines(existing, b) ==
  LET ls == Lines(existing)
      n == IF ls # <<>> /\ StartsWithHashBang(ls[1]) THEN 1 ELSE 0
      above == SubSeq(ls, 1, n)
      below == SubSeq(ls, n + 1, Len(ls))
  IN  above \o (IF above # <<>> THEN <<BLANK_LINE>> ELSE <<>>)
        \o Lines(b)
        \o (IF below # <<>> THEN <<BLANK_LINE>> ELSE <<>>) \o below

\* C13: upsert into a text without a managed block returns the text with
\* the block's lines inserted after its leading shebang line, or at the top
\* when it has none, a blank line between the block and the existing lines
\* on each side.
C13_InsertAfterShebang ==
  \A i \in Steps :
    (hist[i].op = "upsert" /\ hist[i].input # NoFile
       /\ NoMarkerLine(hist[i].input))
      => SameUpToShebang(Lines(hist[i].out),
                         InsertedLines(hist[i].input, block))

\* the insertion is as described for every text whose last line is not
\* blank
InsertAfterShebangUnlessEndingBlank ==
  \A i \in Steps :
    (hist[i].op = "upsert" /\ hist[i].input # NoFile
       /\ NoMarkerLine(hist[i].input)
       /\ (Lines(hist[i].input) = <<>>
             \/ ~IsBlank(Lines(hist[i].input)[Len(Lines(hist[i].input))])))
      => SameUpToShebang(Lines(hist[i].out),
                         InsertedLines(hist[i].input, block))

FirstLine(t) == IF Lines(t) = <<>> THEN <<>> ELSE Lines(t)[1]

\* C14: the first line of every text upsert returns starts with "#!"; with
\* no existing file the result is the block text, with "#!/bin/sh" put in
\* front as a new first line exactly when the block's first line does not
\* start with "#!".
C14_UpsertStartsWithShebang ==
  \A i \in Steps :
    hist[i].op = "upsert"
      => /\ StartsWithHashBang(FirstLine(hist[i].out))
         /\ hist[i].input = NoFile
              => IF StartsWithHashBang(FirstLine(block))
                   THEN hist[i].out = block
                   ELSE /\ Lines(hist[i].out) = << <<SHEBANG>> >> \o Lines(block)
                        /\ SubSeq(hist[i].out, 3, Len(hist[i].out)) = block

C14_Witness ==
  /\ Len(hist) = 2
  /\ hist[1].op = "upsert" /\ hist[1].input = NoFile
  /\ StartsWithHashBang(FirstLine(block)) /\ hist[1].out = block
  /\ hist[2].op = "upsert" /\ hist[2].out # hist[2].input

\* ----------------------------------------- claims on the snapshot store
Born == {sn.born : sn \in snapshots}

\* C2: after N writes of distinct content with max_snapshots = k, 0 < k < N,
\* exactly k snapshots remain and they are the k created last; the snapshot
\* of the latest write is among them, also for writes in the same second.
C2_RetentionKeepsNewest ==
  (faults = 0 /\ max_snapshots > 0 /\ ops > max_snapshots)
    => /\ Cardinality(snapshots) = max_snapshots
       /\ Born = (ops - max_snapshots + 1)..ops

\* the snapshot files that write i of the store left
SnapshotsAfter(i) == IF i = Len(log) THEN snapshots ELSE log[i + 1].had

\* C11: after create_hook_snapshot_and_prune succeeds with max_snapshots > 0
\* and deletions succeed, at most max_snapshots snapshot files remain,
\* however many there were; with max_snapshots = 0 no snapshot file is ever
\* deleted.
C11_RetentionBound ==
  \A i \in 1..Len(log) :
    /\ (log[i].made /\ log[i].io.remove_ok /\ max_snapshots > 0)
         => Cardinality(SnapshotsAfter(i)) <= max_snapshots
    /\ max_snapshots = 0 => log[i].had \subseteq SnapshotsAfter(i)

C11_Witness ==
  /\ log # <<>>
  /\ Last.made /\ Last.io.remove_ok /\ max_snapshots > 0
  /\ Cardinality(Last.had) > max_snapshots + 1
  /\ Cardinality(snapshots) = max_snapshots

\* ------------------------------------------ claims on the hook file writer
Kinds(trace) == {trace[i].kind : i \in 1..Len(trace)}

\* every write or removal in the trace comes after a snapshot of content
SnapshotFirst(trace, content) ==
  \A j \in 1..Len(trace) :
    trace[j].kind \in {"write", "remove"}
      => \E i \in 1..(j - 1) :
           trace[i].kind = "snapshot" /\ trace[i].content = content

\* the hook file as operation i left it
After(i) == IF i = Len(log) THEN hook ELSE log[i + 1].before

\* C3: when upsert, disable or uninstall changes or removes an existing hook
\* file, a snapshot of its prior content was created first; when the
\* snapshot cannot be created the operation fails and the file is unchanged.
C3_SnapshotBeforeDestructiveChange ==
  \A i \in 1..Len(log) :
    /\ (log[i].before # NoFile /\ After(i) # log[i].before)
         => /\ "snapshot" \in Kinds(log[i].trace)
            /\ SnapshotFirst(log[i].trace, log[i].before)
    /\ "snapshot failed" \in Kinds(log[i].trace)
         => ~log[i].ok /\ After(i) = log[i].before

C3_Witness ==
  /\ Last.op = "uninstall"
  /\ Last.before # NoFile
  /\ hook = NoFile
  /\ SnapshotFirst(Last.trace, Last.before)

\* find_block of the specification: the first begin marker line and the
\* first end marker line after it; <<0, 0>> when there is no such pair
FirstBlock(t) ==
  LET ls == Lines(t)
      begins == {i \in 1..Len(ls) : ls[i] = BEGIN_LINE}
      b0 == CHOOSE b \in begins : \A c \in begins : b <= c
      ends == {i \in 1..Len(ls) : ls[i] = END_LINE /\ i > b0}
  IN  IF begins = {} \/ ends = {} THEN <<0, 0>>
      ELSE <<b0, CHOOSE e \in ends : \A f \in ends : e <= f>>

\* no file, no block in it, or no GHI_ENABLED= line inside the block
NothingToDisable(file) ==
  \/ file = NoFile
  \/ FirstBlock(file) = <<0, 0>>
  \/ \A j \in FirstBlock(file)[1]..FirstBlock(file)[2] :
       ~IsEnabledLine(Lines(file)[j])

\* C7: disable on a missing file, a file without a block or a block without
\* a GHI_ENABLED= line inside it fails, leaves the file as it was and
\* creates no snapshot.
C7_DisableFailsWithoutSideEffects ==
  \A i \in 1..Len(log) :
    (log[i].op = "disable" /\ NothingToDisable(log[i].before))
      => /\ ~log[i].ok
         /\ After(i) = log[i].before
         /\ log[i].trace = <<>>

C7_Witness ==
  /\ Last.op = "disable"
  /\ Last.before # NoFile
  /\ FirstBlock(Last.before) # <<0, 0>>
  /\ NothingToDisable(Last.before)
  /\ \E j \in 1..Len(Lines(Last.before)) : IsEnabledLine(Lines(Last.before)[j])

\* C10: an operation whose computed text equals the hook file's content
\* creates no snapshot and writes nothing; two installs of the same block
\* into a directory without a hook file leave no snapshot file (stated here
\* for the blocks that carry their marker lines, where it already fails).
C10_NoOpDetection ==
  /\ \A i \in 1..Len(log) :
       (log[i].ok /\ log[i].before # NoFile /\ After(i) = log[i].before)
         => Kinds(log[i].trace) \cap {"snapshot", "write"} = {}
  /\ (/\ Len(log) >= 2
      /\ log[1].op = "upsert" /\ log[1].before = NoFile /\ log[1].ok
      /\ log[2].op = "upsert" /\ log[2].ok
      /\ IsMarkedBlock(block))
       => "snapshot" \notin Kinds(log[2].trace)

\* the calls of handle_existing_hook: the upserts that found a hook file
\* without both marker strings
Asked == {i \in 1..Len(log) : log[i].consent.asked}

\* C12: with force or yes set, handle_existing_hook copies the file to a
\* backup without prompting (when the copy can be made) and the operation
\* proceeds to its snapshot and write; with non_interactive
\* and neither of them it fails, with no backup and the hook file unchanged;
\* otherwise it prompts, and a declined prompt is a failure with no backup
\* and the hook file unchanged.
C12_ConsentForUnmanagedHook ==
  \A i \in Asked :
    LET c == log[i].consent
        t == log[i].trace
    IN  IF c.options.force \/ c.options.yes
          THEN /\ "prompt" \notin Kinds(t)
               /\ c.copy_ok
                    => /\ t[1] = [kind |-> "backup", n |-> t[1].n,
                                  content |-> log[i].before]
                       /\ Len(t) >= 2 /\ t[2].kind = "snapshot"
                       /\ log[i].ok
                            => After(i) = upsert_text(log[i].before, block)
        ELSE IF c.options.non_interactive
          THEN ~log[i].ok /\ t = <<>> /\ After(i) = log[i].before
        ELSE /\ t # <<>> /\ t[1].kind = "prompt"
             /\ ~c.confirm
                  => /\ ~log[i].ok
                     /\ "backup" \notin Kinds(t)
                     /\ After(i) = log[i].before

C12_Witness ==
  /\ Asked = {1, 2}
  /\ ~log[1].consent.options.force /\ ~log[1].consent.options.yes
  /\ ~log[1].consent.options.non_interactive /\ ~log[1].consent.confirm
  /\ log[2].consent.options.yes /\ log[2].ok
  /\ Cardinality(backups) = 1

\* ------------------------------------------ claims on the repository scan
Finished == scan.status \in {"done", "error"}

\* the roots the scan returned; none when it returned an error
Reported ==
  IF scan.status = "done"
    THEN {scan.result[i].root : i \in 1..Len(scan.result)}
    ELSE {}

\* a repository root: a directory with a .git directory, or a .git file
\* that names a git directory, in it
HasDotGit(fs, p) ==
  IsDir(fs, p) /\ git_dir_from_repo_root(fs, p).kind = "some"

IsPrefix(q, p) == Len(q) <= Len(p) /\ SubSeq(p, 1, Len(q)) = q

\* the directories from root down to the parent of p
Ancestors(root, p) == {SubSeq(p, 1, k) : k \in Len(root)..(Len(p) - 1)}

\* C15's condition for p to be reported by a scan of root with depth d
WithinReach(fs, root, d, p) ==
  /\ HasDotGit(fs, p)
  /\ IsPrefix(root, p)
  /\ Len(p) - Len(root) <= d
  /\ \A q \in Ancestors(root, p) :
       /\ ~HasDotGit(fs, q)
       /\ q # root => FileName(q) \notin DENY_LIST

AllReadable(fs) == \A e \in fs : e.readable
BudgetLeft == scan.visited_entries < scan.max_entries

\* C15: a scan of root with depth d reports the repository root p, n levels
\* below root, exactly when n <= d and no directory between root and p is a
\* repository root or has a deny-listed name; no reported root lies inside
\* another one.
C15_DepthBoundedScan ==
  (/\ Finished /\ IsDir(tree, scan.scan_root)
   /\ AllReadable(tree) /\ BudgetLeft)
    => /\ Reported = {e.path : e \in {f \in tree :
                         WithinReach(tree, scan.scan_root, scan.max_depth,
                                     f.path)}}
       /\ \A p, q \in Reported : IsPrefix(p, q) => p = q

\* the same holds of every scan that returns a list, when p itself must not
\* have a deny-listed name either
DepthBoundedScanOfListedNames ==
  (/\ scan.status = "done" /\ AllReadable(tree) /\ BudgetLeft)
    => /\ Reported = {e.path : e \in {f \in tree :
                         /\ WithinReach(tree, scan.scan_root, scan.max_depth,
                                        f.path)
                         /\ (f.path # scan.scan_root
                               => FileName(f.path) \notin DENY_LIST)}}
       /\ \A p, q \in Reported : IsPrefix(p, q) => p = q

\* the scan from state st on, every directory read in the order of names
RECURSIVE RunScan(_, _)
RunScan(fs, st) ==
  IF st.status # "running" THEN st
  ELSE IF LoopDone(st) THEN ScanReturn(st)
  ELSE RunScan(fs, ScanDir(fs, st,
                           InNameOrder(Children(fs, Head(st.queue).dir))))

ScanInNameOrder ==
  RunScan(tree, StartScan(tree, scan.scan_root, scan.max_depth,
                          scan.max_entries))

SortedByRoot(result) ==
  \A i, j \in 1..Len(result) :
    i < j => PathLess(result[i].root, result[j].root)

\* C16: for a fixed tree and max_depth the scan returns the same list
\* whatever order the entries of a directory are read in, also when the
\* budget of visited entries is reached; the list is sorted ascending by
\* root path and holds no root twice.
C16_ScanDeterministic ==
  Finished
    => /\ scan.status = ScanInNameOrder.status
       /\ scan.result = ScanInNameOrder.result
       /\ SortedByRoot(scan.result)

\* it does whenever the scan ends with the budget not used up
ScanDeterministicWithinBudget ==
  (Finished /\ BudgetLeft)
    => /\ scan.status = ScanInNameOrder.status
       /\ scan.result = ScanInNameOrder.result
       /\ SortedByRoot(scan.result)

\* ---------------------------------------- claims on the repository lookups
\* the .git regular file of the directory the last lookup was made on
DotGitFile == call.arg \o <<DOT_GIT>>
DotGitText == Trim((CHOOSE e \in EntryAt(tree, DotGitFile) : TRUE).content)
OnGitdirFile ==
  /\ call.fn = "git_dir_from_repo_root"
  /\ \E e \in EntryAt(tree, DotGitFile) : e.kind = "file"

\* the path a trimmed text "gitdir: <path>" names, <<>> when it names none
NamedPath(trimmed) ==
  IF Len(trimmed) >= 2 /\ Trim(Tail(trimmed)) # <<>>
    THEN PathFrom(Trim(Tail(trimmed))[1])
    ELSE <<>>

\* C17: for a .git regular file with trimmed content "gitdir: <path>" the
\* git directory is <path> when it is absolute and the directory holding
\* the .git file joined with <path> otherwise; content that does not start
\* with "gitdir:" or names no path is an error, not "no repository here".
C17_WorktreeIndirection ==
  OnGitdirFile
    => IF DotGitText # <<>> /\ Head(DotGitText) = GITDIR_PREFIX
            /\ NamedPath(DotGitText) # <<>>
         THEN /\ call.result.kind = "some"
              /\ call.result.git_dir
                   = IF NamedPath(DotGitText)[1] = ROOT
                       THEN NamedPath(DotGitText)
                       ELSE call.arg \o NamedPath(DotGitText)
         ELSE call.result.kind = "err"

C17_Witness ==
  /\ OnGitdirFile
  /\ call.result.kind = "some"
  /\ call.result.git_dir = call.arg \o <<PARENT, "a", DOT_GIT, "worktrees", "b">>
  /\ IsDir(tree, call.result.git_dir)

\* C18: the git directory of every pair find_git_repo or the scan returns
\* exists and is a directory.
C18_GitDirIsDirectory ==
  /\ (call.fn = "find_git_repo" /\ call.result.kind = "some")
       => IsDir(tree, call.result.git_dir)
  /\ scan.status = "done"
       => \A i \in 1..Len(scan.result) : IsDir(tree, scan.result[i].git_dir)

\* --------------------------------------- claims on the manifest resolution
ByDiscovery ==
  call.fn = "resolve_cargo_manifest_dir" /\ call.arg = NoManifestDir
ByManifestDir ==
  call.fn = "resolve_cargo_manifest_dir" /\ call.arg # NoManifestDir

\* the directories with a manifest from cwd up to the repository root
ManifestsAbove(fs, cwd) ==
  {p \in Directories(fs) :
     IsPrefix(W, p) /\ IsPrefix(p, cwd) /\ HasManifest(fs, p)}

\* the directories with a manifest the scan from the repository root reaches
ManifestsBelow(fs) ==
  {p \in Directories(fs) :
     /\ IsPrefix(W, p) /\ HasManifest(fs, p)
     /\ \A k \in (Len(W) + 1)..Len(p) : p[k] \notin MANIFEST_DENY_LIST}

Candidates(fs, cwd) ==
  IF ManifestsAbove(fs, cwd) # {} THEN ManifestsAbove(fs, cwd)
  ELSE ManifestsBelow(fs)

\* C19: the candidates are sorted and free of duplicates; with none the
\* result is an error naming the repository root, with one it is that
\* candidate, with several and non_interactive or yes set it is an error,
\* and with several in interactive mode it is the candidate at the selected
\* index of the sorted list.
C19_ManifestResolutionNeverArbitrary ==
  ByDiscovery
    => LET c == call.result.candidates
           r == call.result
       IN  /\ {c[i] : i \in 1..Len(c)} = Candidates(tree, call.cwd)
           /\ \A i, j \in 1..Len(c) : i < j => PathLess(c[i], c[j])
           /\ IF c = <<>> THEN r.kind = "err" /\ r.dir = W
              ELSE IF Len(c) = 1 THEN r.kind = "ok" /\ r.dir = c[1]
              ELSE IF call.options.non_interactive \/ call.options.yes
                THEN r.kind = "err"
              ELSE call.selected < Len(c)
                     => r.kind = "ok" /\ r.dir = c[call.selected + 1]

C19_Witness ==
  /\ ByDiscovery
  /\ ManifestsAbove(tree, call.cwd) = {}
  /\ Len(call.result.candidates) = 2
  /\ call.selected = 1
  /\ call.result.kind = "ok"
  /\ call.result.dir = call.result.candidates[2]

\* the directory the value of --manifest-dir denotes
Denoted == Walk(tree, PathJoin(W, call.arg), <<ROOT>>)

\* C20: an explicit manifest directory is accepted only if it lies within
\* the repository root: a path that denotes a directory outside it, also
\* one that leaves it through "..", is rejected as outside the repository,
\* and a path inside it without a Cargo.toml is rejected as not containing
\* one.
C20_ManifestDirWithinRepository ==
  ByManifestDir
    => IF ~IsPrefix(W, Denoted)
         THEN /\ call.result.kind = "err"
              /\ call.result.err = "is outside the repository"
       ELSE IF ~HasManifest(tree, Denoted)
         THEN /\ call.result.kind = "err"
              /\ call.result.err = "does not contain a Cargo.toml"
       ELSE call.result.kind = "ok"

\* ------------------------------------------ claims on the block's extent
\* the text an operation returns when it works on lines b..e of text t
OnRange(op, t, b, e) ==
  LET ls == Lines(t)
  IN  CASE op = "upsert" ->
             Ok(ensure_shebang(normalize_newline_join(
                  Splice(ls, b, e, Lines(block)))))
        [] op = "uninstall" ->
             Ok(normalize_newline_join(Splice(ls, b, e, <<>>)))
        [] op = "disable" ->
             IF \E j \in b..e : IsEnabledLine(ls[j])
               THEN Ok(normalize_newline_join(DisabledLines(ls, b, e)))
               ELSE Err("no GHI_ENABLED line")

\* C21: upsert, disable and uninstall work on the block from the first begin
\* marker line to the first end marker line after it, also when more begin
\* marker lines come before that end marker line; the lines before and after
\* this range, later marker lines among them, stay as they are.
C21_BlockFromFirstBeginMarker ==
  \A i \in Steps :
    (hist[i].input # NoFile /\ FirstBlock(hist[i].input) # <<0, 0>>)
      => LET r == OnRange(hist[i].op, hist[i].input,
                          FirstBlock(hist[i].input)[1],
                          FirstBlock(hist[i].input)[2])
         IN  hist[i].ok = r.ok /\ (r.ok => hist[i].out = r.text)

\* the begin marker lines of t in front of its first end marker line
BeginsBeforeEnd(t) ==
  LET ls == Lines(t)
  IN  {j \in 1..Len(ls) :
         /\ ls[j] = BEGIN_LINE
         /\ \A k \in 1..j : ls[k] # END_LINE}

\* it is that block whenever one begin marker line at most comes before the
\* first end marker line
BlockFromFirstBeginMarkerWhenOnlyOne ==
  \A i \in Steps :
    (/\ hist[i].input # NoFile /\ FirstBlock(hist[i].input) # <<0, 0>>
     /\ Cardinality(BeginsBeforeEnd(hist[i].input)) = 1)
      => LET r == OnRange(hist[i].op, hist[i].input,
                          FirstBlock(hist[i].input)[1],
                          FirstBlock(hist[i].input)[2])
         IN  hist[i].ok = r.ok /\ (r.ok => hist[i].out = r.text)

\* --------------------------------- more claims on the hook file writer
\* handle_existing_hook succeeded: the trace holds a backup of content, and
\* no write in front of it
BackupFirst(trace, content) ==
  \E j \in 1..Len(trace) :
    /\ trace[j].kind = "backup" /\ trace[j].content = content
    /\ \A k \in 1..j : trace[k].kind # "write"

\* C22: upsert changes an existing hook file without a recognized block (a
\* begin marker line with an end marker line after it) only after
\* handle_existing_hook succeeded; a file with a recognized block is
\* upserted without a prompt and without a backup.
C22_ConsentWithoutRecognizedBlock ==
  \A i \in 1..Len(log) :
    (log[i].op = "upsert" /\ log[i].before # NoFile)
      => IF FirstBlock(log[i].before) = <<0, 0>>
           THEN After(i) # log[i].before
                  => BackupFirst(log[i].trace, log[i].before)
           ELSE Kinds(log[i].trace) \cap {"prompt", "backup"} = {}

\* it does so for every file that holds the two marker strings nowhere
ConsentWithoutMarkerStrings ==
  \A i \in 1..Len(log) :
    (log[i].op = "upsert" /\ log[i].before # NoFile)
      => IF ~has_managed(log[i].before)
           THEN After(i) # log[i].before
                  => BackupFirst(log[i].trace, log[i].before)
           ELSE Kinds(log[i].trace) \cap {"prompt", "backup"} = {}

\* C23: a successful uninstall whose remainder is empty or white space only
\* snapshots the hook file and then removes it, and writes nothing; one
\* whose remainder has other content leaves the file with exactly the
\* remainder.
C23_UninstallRemovesEmptyHook ==
  \A i \in 1..Len(log) :
    (log[i].op = "uninstall" /\ log[i].ok)
      => LET remainder == uninstall_managed_block(log[i].before).text
             t == log[i].trace
         IN  IF IsBlank(remainder)
               THEN /\ After(i) = NoFile
                    /\ t[1] = [kind |-> "snapshot", name |-> t[1].name,
                               content |-> log[i].before]
                    /\ t[Len(t)].kind = "remove"
                    /\ "write" \notin Kinds(t)
               ELSE /\ After(i) = remainder
                    /\ "remove" \notin Kinds(t)

C23_Witness ==
  /\ Len(log) = 2
  /\ log[1].op = "disable" /\ log[1].ok
  /\ log[2].op = "uninstall" /\ log[2].ok
  /\ hook = NoFile
  /\ Cardinality(snapshots) = 2

\* C24: after every successful operation that wrote new content to the hook
\* file (upsert, disable, uninstall with a remainder) the file is
\* executable, whatever its mode was before.
C24_ExecutableAfterWrite ==
  (log # <<>> /\ Last.ok /\ "write" \in Kinds(Last.trace)) => exec

\* it is after every successful upsert
ExecutableAfterUpsert ==
  (log # <<>> /\ Last.ok /\ Last.op = "upsert") => exec

\* C29: an install where there is no hook file followed by an uninstall
\* leaves a hook file that holds the shebang line and nothing else; the
\* install after that finds an existing hook without a block: with
\* non_interactive and neither force nor yes it fails and leaves the file as
\* it is, and with yes or force it first copies the shebang-only file to
\* the backup ".bak".
C29_InstallUninstallLeavesShebang ==
  (/\ Len(log) >= 2
   /\ log[1].op = "upsert" /\ log[1].before = NoFile /\ log[1].ok
   /\ log[2].op = "uninstall" /\ log[2].ok)
    => /\ After(2) = <<SHEBANG, LF>>
       /\ (Len(log) >= 3 /\ log[3].op = "upsert")
            => LET o == log[3].consent.options
                   t == log[3].trace
               IN  /\ log[3].consent.asked
                   /\ (o.non_interactive /\ ~o.force /\ ~o.yes)
                        => ~log[3].ok /\ t = <<>> /\ After(3) = log[3].before
                   /\ ((o.force \/ o.yes) /\ log[3].consent.copy_ok)
                        => t[1] = [kind |-> "backup", n |-> 0,
                                   content |-> <<SHEBANG, LF>>]
                   /\ log[3].ok
                        => BackupFirst(t, <<SHEBANG, LF>>)

C29_Witness ==
  /\ Len(log) = 3
  /\ log[1].op = "upsert" /\ log[1].before = NoFile /\ log[1].ok
  /\ log[2].op = "uninstall" /\ log[2].ok
  /\ log[3].op = "upsert" /\ log[3].ok /\ log[3].consent.options.yes
  /\ backups = {[n |-> 0, content |-> <<SHEBANG, LF>>]}
  /\ HasBlock(hook)

\* ------------------------------------ more claims on the repository scan
\* C25: a scan of an existing directory returns a list, never an error: a
\* directory whose entries or whose .git file cannot be read or parsed is
\* passed over and the repositories found elsewhere are returned.
C25_BestEffortScan ==
  (Finished /\ IsDir(tree, scan.scan_root))
    => /\ scan.status = "done"
       /\ {scan.found[i].root : i \in 1..Len(scan.found)} \subseteq Reported

\* the directories whose .git file git_dir_from_repo_root fails on
UnparsableDotGit(fs) ==
  {p \in Directories(fs) : git_dir_from_repo_root(fs, p).kind = "err"}

\* it does in a tree where every .git file there is can be parsed
BestEffortScanOfParsableTrees ==
  (Finished /\ IsDir(tree, scan.scan_root) /\ UnparsableDotGit(tree) = {})
    => /\ scan.status = "done"
       /\ {scan.found[i].root : i \in 1..Len(scan.found)} \subseteq Reported

\* C26: neither bounded scan goes through more file system entries, files
\* and directories alike, than its budget, and both stop when it is used
\* up.
C26_EntryBudget ==
  /\ call.fn = "find_cargo_manifests_bfs"
       => call.result.examined <= call.max_entries
  /\ scan.status # "idle" => scan.visited_entries <= scan.max_entries

\* the manifest scan stays within its budget of directories taken off the
\* queue
DirectoryBudget ==
  call.fn = "find_cargo_manifests_bfs"
    => call.result.visited_entries <= call.max_entries

\* the directories with a manifest from cwd up to repo_root
ManifestsBetween(fs, cwd, repo_root) ==
  {p \in Directories(fs) :
     IsPrefix(repo_root, p) /\ IsPrefix(p, cwd) /\ HasManifest(fs, p)}

\* C28: for cwd under repo_root, find_cargo_manifests_upwards returns the
\* directories from cwd up to repo_root that hold a Cargo.toml, each once,
\* the nearest first, and none above repo_root; resolve_cargo_manifest_dir
\* takes its candidates from this walk when it returns any and from the
\* scan of the repository only when it returns none.
C28_UpwardCandidates ==
  /\ (call.fn = "find_cargo_manifests_upwards"
        /\ IsPrefix(call.repo_root, call.cwd))
       => LET r == call.result
          IN  /\ {r[i] : i \in 1..Len(r)}
                   = ManifestsBetween(tree, call.cwd, call.repo_root)
              /\ \A i, j \in 1..Len(r) : i < j => Len(r[i]) > Len(r[j])
  /\ ByDiscovery
       => LET c == call.result.candidates
          IN  {c[i] : i \in 1..Len(c)}
                = IF ManifestsBetween(tree, call.cwd, W) # {}
                    THEN ManifestsBetween(tree, call.cwd, W)
                    ELSE ManifestsBelow(tree)

C28_Witness ==
  /\ call.fn = "find_cargo_manifests_upwards"
  /\ call.cwd # call.repo_root
  /\ call.result = <<call.cwd, call.repo_root>>
  /\ ManifestsBelow(tree) \ ManifestsBetween(tree, call.cwd, W) # {}

\* ------------------------------------- claims on the copies of the hook
IsCopyName(name) ==
  /\ name.file = PRE_COMMIT_HOOK_NAME
  /\ name.ext \in {SNAPSHOT_EXT, BAK_EXT}

\* the name the last call tries for counter c
CopyName(c) ==
  IF call.fn = "backup_existing_hook"
    THEN BackupName(PRE_COMMIT_HOOK_NAME, c)
    ELSE Snapshot(SnapshotName(format_timestamp_for_snapshot_name(now), c))

\* every name the last call could try was in the directory
AllTaken ==
  LET old == NamesIn(call.before)
  IN  \A c \in 0..NAME_COUNTER_CAP : CopyName(c) \in old

\* C27: a snapshot or a backup is copied to the first name that is not in
\* the directory, so no earlier snapshot or backup changes its content; with
\* the base name and the suffixes .1 to .10000 all taken the call fails and
\* copies nothing.
C27_CopiesAreWriteOnce ==
  call # NoCall
    => /\ \A e \in call.before \ dir :
            IsCopyName(e.name) => e.name \notin NamesIn(dir)
       /\ \A e \in dir \ call.before :
            /\ e.name \notin NamesIn(call.before)
            /\ \E c \in 0..NAME_COUNTER_CAP :
                 /\ e.name = CopyName(c)
                 /\ \A k \in 0..(c - 1) : CopyName(k) \in NamesIn(call.before)
            /\ e.content = (CHOOSE h \in call.before : h.name = HookFile).content
       /\ AllTaken => ~call.ok /\ dir = call.before

\* the first call put a snapshot after the names taken in its second, the
\* second a backup after the backups an earlier run left
C27_Witness ==
  /\ ops = 2 /\ call.fn = "backup_existing_hook" /\ call.ok
  /\ Entry(BackupName(PRE_COMMIT_HOOK_NAME, 1), "file", <<"b1", LF>>) \in dir
  /\ Entry(BackupName(PRE_COMMIT_HOOK_NAME, 2), "file", <<"v1", LF>>)
       \in dir \ call.before
  /\ Entry(Snapshot(SnapshotName(format_timestamp_for_snapshot_name(now),
                                 MaxK + 2)), "file", <<"v1", LF>>)
       \in call.before

\* in the crowded directory the first call gave out the last backup name
\* and the second call found every name taken
CrowdedAfterLastName ==
  /\ ops = 2 /\ call.fn = "backup_existing_hook" /\ ~call.ok
  /\ Entry(BackupName(PRE_COMMIT_HOOK_NAME, NAME_COUNTER_CAP), "file",
           <<"v1", LF>>) \in dir
  /\ Entry(BackupName(PRE_COMMIT_HOOK_NAME, NAME_COUNTER_CAP - 1), "file",
           <<"b0", LF>>) \in dir
  /\ dir = call.before
  /\ AllTaken

\* "{file_name}.snapshot-" starts the name
NamedAsSnapshot(name) ==
  name.file = PRE_COMMIT_HOOK_NAME /\ name.ext = SNAPSHOT_EXT

\* C30: create_hook_snapshot_and_prune leaves every entry whose name does
\* not start with "pre-commit.snapshot-" as it is, the hook file and the
\* backups among them, and adds none; when the hook path is no regular
\* file it changes nothing at all.
C30_SnapshotTouchesOnlySnapshots ==
  (call # NoCall /\ call.fn = "create_hook_snapshot_and_prune")
    => /\ {e \in dir : ~NamedAsSnapshot(e.name)}
            = {e \in call.before : ~NamedAsSnapshot(e.name)}
       /\ (\A e \in call.before : e.name = HookFile => e.kind # "file")
            => call.ok /\ dir = call.before

\* a snapshot was added and another pruned next to a backup, a sample and
\* the snapshots of another hook
C30_Witness ==
  /\ call # NoCall /\ call.fn = "create_hook_snapshot_and_prune" /\ call.ok
  /\ Foreign \subseteq dir
  /\ BackupName(PRE_COMMIT_HOOK_NAME, 0) \in NamesIn(dir)
  /\ \E e \in call.before \ dir : NamedAsSnapshot(e.name)
  /\ \E e \in dir \ call.before : NamedAsSnapshot(e.name)

====
